---- MODULE Spec2Model ----
(***************************************************************************)
(* WorkHourTracker: the time accounting engine of server/src/utils/time.js *)
(* (splitSessionByDay, computeDayTotal, computeRangeTotal) over the luxon  *)
(* DateTime operations it calls.                                           *)
(*                                                                         *)
(* Instants are whole minutes counted from 2026-01-01T00:00Z; a JS Date is *)
(* such an instant, and a duration in milliseconds is a difference of      *)
(* instants times 60000.  luxon keeps zone offsets in minutes, so its      *)
(* "o * 60 * 1000" milliseconds are "o" minutes here.                      *)
(***************************************************************************)
EXTENDS Integers, Sequences, FiniteSets, TLC

VARIABLES
    timezone,   \* the user's IANA timezone string handed to the engine
    now,        \* the wall clock, DateTime.now() and new Date()
    session,    \* the session handed to splitSessionByDay
    sessions,   \* the sessions handed to computeDayTotal / computeRangeTotal
    date,       \* the 'YYYY-MM-DD' argument of computeDayTotal / getDayBounds
    dates,      \* the array of 'YYYY-MM-DD' strings of computeRangeTotal
    workedMs,   \* the workedMs argument of computeProgressPercent
    goalHours,  \* the goalHours argument of computeProgressPercent
    ms,         \* the argument of formatDuration
    loopCursor, \* the cursor of the loop of splitSessionByDay, run step by step
    loopCount,  \* how many times the body of that loop has run
    docs,       \* the documents of the Session collection
    reqs,       \* the requests being handled
    users,      \* the documents of the User collection
    invites,    \* the documents of the AdminInvite collection
    goals,      \* the documents of the DailyGoal collection
    tokens,     \* the JWT cookies issued so far
    auditLogs,  \* the documents of the AuditLog collection
    called,     \* the function that was called, "none" before the call
    result,     \* what the call returned
    thrown      \* the error the call threw, "" when it returned normally

loopVars == <<loopCursor, loopCount>>
engineVars == <<timezone, now, session, sessions, date, dates, loopVars>>
helperVars == <<workedMs, goalHours, ms>>
storeVars == <<users, invites, goals, tokens, auditLogs>>
routeVars == <<docs, reqs, storeVars>>

vars == <<engineVars, helperVars, routeVars, called, result, thrown>>

(***************************************************************************)
(* Bounds of the model.                                                    *)
(***************************************************************************)
\* half-hour steps in each window of session start instants
WindowSteps == 28
\* longest session, in hours
MaxDurHours == 54
\* minutes between the end of a closed session and the instant it is evaluated
NowLag == 90
\* most sessions handed to computeDayTotal and computeRangeTotal
MaxSessions == 2
\* most entries of the dates array handed to computeRangeTotal
MaxDates == 2
\* the longest worked time given to computeProgressPercent, in quarter hours
MaxWorkedQuarters == 120
\* the longest duration given to formatDuration, in minutes
MaxFormatMinutes == 6020
\* the most requests received in one run
MaxRequests == 3
\* the last reading of the clock in a run of requests
MaxClock == 2
\* the most GET requests (goal, day summary) handled in one run
MaxReads == 1
\* the most PUT /goals requests handled in one run
MaxPuts == 2

(***************************************************************************)
(* Values.                                                                 *)
(***************************************************************************)
\* Session.endAt of a session that is still active
Null == -1

MinutesPerDay == 24 * 60

MsPerMinute == 60 * 1000

\* 2026-03-08 and 2026-11-01, the days the clocks change, as days of 2026
SpringDay == 31 + 28 + 7
AutumnDay == 31 + 28 + 31 + 30 + 31 + 30 + 31 + 31 + 30 + 31

Zones == {"Asia/Kolkata", "America/New_York", "America/Havana", "Not/AZone"}

(***************************************************************************)
(* luxon: zones.                                                           *)
(***************************************************************************)
\* IANAZone.isValidZone
isValidZone(tz) == tz \in {"Asia/Kolkata", "America/New_York", "America/Havana"}

\* IANAZone.offset(ts): minutes east of UTC at instant ts (tz database, 2026).
\*   Asia/Kolkata      UTC+5:30 all year
\*   America/New_York  EST, EDT from 2026-03-08T07:00Z to 2026-11-01T06:00Z
\*   America/Havana    CST, CDT from 2026-03-08T05:00Z to 2026-11-01T05:00Z
\*                     (the clocks change at local midnight standard time)
offset(tz, ts) ==
    CASE tz = "Asia/Kolkata" -> 330
      [] tz = "America/New_York" ->
            IF /\ ts >= SpringDay * MinutesPerDay + 7 * 60
               /\ ts < AutumnDay * MinutesPerDay + 6 * 60
            THEN -240 ELSE -300
      [] tz = "America/Havana" ->
            IF /\ ts >= SpringDay * MinutesPerDay + 5 * 60
               /\ ts < AutumnDay * MinutesPerDay + 5 * 60
            THEN -240 ELSE -300

(***************************************************************************)
(* luxon: the civil calendar (year 2026).                                  *)
(***************************************************************************)
daysInMonth(year, month) ==
    CASE month \in {4, 6, 9, 11} -> 30
      [] month = 2 ->
            IF year % 4 = 0 /\ (year % 100 # 0 \/ year % 400 = 0) THEN 29 ELSE 28
      [] OTHER -> 31

RECURSIVE daysBeforeMonth(_, _)
daysBeforeMonth(year, month) ==
    IF month <= 1 THEN 0
    ELSE daysBeforeMonth(year, month - 1) + daysInMonth(year, month - 1)

RECURSIVE monthOfDay(_, _, _)
\* the month and day of month of day number n (0 = 1 January) of the year
monthOfDay(year, month, n) ==
    IF n < daysInMonth(year, month) THEN [month |-> month, day |-> n + 1]
    ELSE monthOfDay(year, month + 1, n - daysInMonth(year, month))

\* objToLocalTS: the local wall clock reading c taken as if it were UTC.
\* Like Date.UTC it accepts a day past the end of the month.
objToLocalTS(c) ==
    (daysBeforeMonth(c.year, c.month) + c.day - 1) * MinutesPerDay
        + c.hour * 60 + c.minute

\* tsToObj: the wall clock reading at instant ts under offset o
tsToObj(ts, o) ==
    LET local == ts + o
        md == monthOfDay(2026, 1, local \div MinutesPerDay)
    IN [year |-> 2026, month |-> md.month, day |-> md.day,
        hour |-> (local % MinutesPerDay) \div 60, minute |-> local % 60]

\* fixOffset: the instant whose wall clock reading in tz is localTS, guessing
\* offset o first; a reading inside a gap keeps the later offset.
fixOffset(localTS, o, tz) ==
    LET utcGuess == localTS - o
        o2 == offset(tz, utcGuess)
        utcGuess2 == utcGuess - (o2 - o)
        o3 == offset(tz, utcGuess2)
        min == IF o2 < o3 THEN o2 ELSE o3
        max == IF o2 < o3 THEN o3 ELSE o2
    IN IF o = o2 THEN [ts |-> utcGuess, o |-> o]
       ELSE IF o2 = o3 THEN [ts |-> utcGuess2, o |-> o2]
       ELSE [ts |-> localTS - min, o |-> max]

(***************************************************************************)
(* luxon: DateTime.                                                        *)
(***************************************************************************)
\* DateTime.invalid(unsupportedZone): valueOf() is NaN
InvalidDateTime(tz) == [valid |-> FALSE, ts |-> 0, o |-> 0, zone |-> tz]

\* DateTime.fromJSDate(date, { zone })
fromJSDate(jsDate, tz) ==
    IF ~isValidZone(tz) THEN InvalidDateTime(tz)
    ELSE [valid |-> TRUE, ts |-> jsDate, o |-> offset(tz, jsDate), zone |-> tz]

\* DateTime.now().setZone(zone), the wall clock reading clock
nowInZone(clock, tz) == fromJSDate(clock, tz)

\* a < b and a <= b on DateTimes: valueOf() compared as numbers, NaN compares
\* false with everything
Lt(a, b) == a.valid /\ b.valid /\ a.ts < b.ts
Le(a, b) == a.valid /\ b.valid /\ a.ts <= b.ts

\* dt.plus({ days: n }): adjustTime
plusDays(dt, n) ==
    IF ~dt.valid THEN dt
    ELSE LET c == tsToObj(dt.ts, dt.o)
             moved == [c EXCEPT !.day =
                          (IF c.day < daysInMonth(c.year, c.month)
                           THEN c.day ELSE daysInMonth(c.year, c.month)) + n]
             fixed == fixOffset(objToLocalTS(moved), dt.o, dt.zone)
         IN [dt EXCEPT !.ts = fixed.ts, !.o = fixed.o]

\* dt.startOf('day'): set({ hour: 0, minute: 0, second: 0, millisecond: 0 })
startOfDay(dt) ==
    IF ~dt.valid THEN dt
    ELSE LET c == tsToObj(dt.ts, dt.o)
             fixed == fixOffset(objToLocalTS([c EXCEPT !.hour = 0, !.minute = 0]),
                                dt.o, dt.zone)
         IN [dt EXCEPT !.ts = fixed.ts, !.o = fixed.o]

\* String(n).padStart(2, '0') as toFormat's MM and dd tokens print it
pad2(n) == IF n < 10 THEN "0" \o ToString(n) ELSE ToString(n)

\* the 'yyyy-MM-dd' string of a wall clock reading
formatDate(c) == ToString(c.year) \o "-" \o pad2(c.month) \o "-" \o pad2(c.day)

\* dt.toFormat('yyyy-MM-dd')
toFormat(dt) ==
    IF ~dt.valid THEN "Invalid DateTime" ELSE formatDate(tsToObj(dt.ts, dt.o))

\* a.diff(b).as('milliseconds')
diffMs(a, b) == (a.ts - b.ts) * MsPerMinute

(***************************************************************************)
(* utils/time.js                                                           *)
(***************************************************************************)
\* dt.plus({ hours: 24 }): 24 real hours later
plus24Hours(dt) ==
    IF ~dt.valid THEN dt
    ELSE [dt EXCEPT !.ts = dt.ts + MinutesPerDay,
                    !.o = offset(dt.zone, dt.ts + MinutesPerDay)]

RECURSIVE splitLoop_fixedStride(_, _, _)
\* the bug of finding the first local midnight and then stepping 24 hours at
\* a time
splitLoop_fixedStride(cursor, end, acc) ==
    IF ~Lt(cursor, end) THEN acc
    ELSE LET nextMidnight == IF acc = <<>> THEN startOfDay(plusDays(cursor, 1))
                             ELSE plus24Hours(cursor)
             segmentEnd == IF Lt(nextMidnight, end) THEN nextMidnight ELSE end
             durationMs == diffMs(segmentEnd, cursor)
         IN splitLoop_fixedStride(nextMidnight, end,
                      IF durationMs > 0
                      THEN Append(acc, [date |-> toFormat(cursor),
                                        durationMs |-> durationMs])
                      ELSE acc)

RECURSIVE splitLoop(_, _, _)
\* the while loop of splitSessionByDay
splitLoop(cursor, end, acc) ==
    IF ~Lt(cursor, end) THEN acc
    ELSE LET nextMidnight == startOfDay(plusDays(cursor, 1))
             segmentEnd == IF Lt(nextMidnight, end) THEN nextMidnight ELSE end
             durationMs == diffMs(segmentEnd, cursor)
         IN splitLoop(nextMidnight, end,
                      IF durationMs > 0
                      THEN Append(acc, [date |-> toFormat(cursor),
                                        durationMs |-> durationMs])
                      ELSE acc)

\* the bug of reading the clock for every session, ended or not
sessionEnd_alwaysNow(s, tz, clock) == nowInZone(clock, tz)

\* the bug of giving an active session no end of its own: it ends as it starts
sessionEnd_openIsEmpty(s, tz, clock) ==
    IF s.endAt # Null THEN fromJSDate(s.endAt, tz) ELSE fromJSDate(s.startAt, tz)

\* the end of the session: endAt, or the current time while it is active
sessionEnd(s, tz, clock) ==
    IF s.endAt # Null THEN fromJSDate(s.endAt, tz) ELSE nowInZone(clock, tz)

\* the bug of putting an inverted interval the right way round
splitSessionByDay_swapped(s, tz, clock) ==
    LET start == fromJSDate(s.startAt, tz)
        end == sessionEnd(s, tz, clock)
    IN IF Lt(end, start) THEN splitLoop(end, start, <<>>)
       ELSE splitLoop(start, end, <<>>)

splitSessionByDay(s, tz, clock) ==
    LET start == fromJSDate(s.startAt, tz)
        end == sessionEnd(s, tz, clock)
    IN IF Le(end, start) THEN <<>> ELSE splitLoop(start, end, <<>>)

\* the bug of keeping the last matching segment instead of adding it
addSegmentsOn_overwrite(segments, d, totalMs) ==
    LET onDate(seg) == seg.date = d
        hits == SelectSeq(segments, onDate)
    IN IF hits = <<>> THEN totalMs ELSE hits[Len(hits)].durationMs

RECURSIVE addSegmentsOn(_, _, _)
\* the inner loop of computeDayTotal: totalMs plus the durationMs of every
\* segment whose date is d
addSegmentsOn(segments, d, totalMs) ==
    IF segments = <<>> THEN totalMs
    ELSE addSegmentsOn(Tail(segments), d,
                       IF Head(segments).date = d
                       THEN totalMs + Head(segments).durationMs
                       ELSE totalMs)

RECURSIVE dayTotalLoop_perSession(_, _, _, _, _)
\* the bug of starting the total again at every session
dayTotalLoop_perSession(ss, d, tz, clock, totalMs) ==
    IF ss = <<>> THEN totalMs
    ELSE dayTotalLoop_perSession(Tail(ss), d, tz, clock,
             addSegmentsOn(splitSessionByDay(Head(ss), tz, clock), d, 0))

RECURSIVE dayTotalLoop(_, _, _, _, _)
\* the outer loop of computeDayTotal
dayTotalLoop(ss, d, tz, clock, totalMs) ==
    IF ss = <<>> THEN totalMs
    ELSE dayTotalLoop(Tail(ss), d, tz, clock,
             addSegmentsOn(splitSessionByDay(Head(ss), tz, clock), d, totalMs))

computeDayTotal(ss, d, tz, clock) == dayTotalLoop(ss, d, tz, clock, 0)

RECURSIVE addSegmentsIn(_, _, _)
\* the inner loop of computeRangeTotal: totalMs plus the durationMs of every
\* segment whose date the set has
addSegmentsIn(segments, dateSet, totalMs) ==
    IF segments = <<>> THEN totalMs
    ELSE addSegmentsIn(Tail(segments), dateSet,
                       IF Head(segments).date \in dateSet
                       THEN totalMs + Head(segments).durationMs
                       ELSE totalMs)

RECURSIVE rangeTotalLoop(_, _, _, _, _)
\* the outer loop of computeRangeTotal
rangeTotalLoop(ss, dateSet, tz, clock, totalMs) ==
    IF ss = <<>> THEN totalMs
    ELSE rangeTotalLoop(Tail(ss), dateSet, tz, clock,
             addSegmentsIn(splitSessionByDay(Head(ss), tz, clock), dateSet,
                           totalMs))

RECURSIVE computeRangeTotal_perDate(_, _, _, _)
\* the bug of adding up the day totals of the array as it is listed
computeRangeTotal_perDate(ss, ds, tz, clock) ==
    IF ds = <<>> THEN 0
    ELSE computeDayTotal(ss, Head(ds), tz, clock)
            + computeRangeTotal_perDate(ss, Tail(ds), tz, clock)

\* dateSet = new Set(dates)
computeRangeTotal(ss, ds, tz, clock) ==
    rangeTotalLoop(ss, { ds[i] : i \in 1 .. Len(ds) }, tz, clock, 0)

(***************************************************************************)
(* luxon: what the boundary functions use besides the above.               *)
(***************************************************************************)
\* the getTime() of an Invalid Date, which no instant of the model equals
NaN == 0 - MinutesPerDay

\* dt.toJSDate(): new Date(NaN) for an invalid DateTime
toJSDate(dt) == IF dt.valid THEN dt.ts ELSE NaN

\* the digit a character stands for
digitValue(ch) == CHOOSE d \in 0 .. 9 : ToString(d) = ch

RECURSIVE parseDigits(_)
\* the number a string of digits reads as
parseDigits(text) ==
    IF Len(text) = 0 THEN 0
    ELSE parseDigits(SubSeq(text, 1, Len(text) - 1)) * 10
            + digitValue(SubSeq(text, Len(text), Len(text)))

\* DateTime.fromFormat(text, 'yyyy-MM-dd', { zone }): DateTime.fromObject of
\* the parsed year, month and day, at 00:00; the offset is first guessed to
\* be the zone's offset at Settings.now()
fromFormat(text, tz, clock) ==
    LET c == [year |-> parseDigits(SubSeq(text, 1, 4)),
              month |-> parseDigits(SubSeq(text, 6, 7)),
              day |-> parseDigits(SubSeq(text, 9, 10)),
              hour |-> 0, minute |-> 0]
    IN IF ~isValidZone(tz) THEN InvalidDateTime(tz)
       ELSE IF \/ c.month \notin 1 .. 12
               \/ c.day \notin 1 .. daysInMonth(c.year, c.month)
            THEN InvalidDateTime(tz)
       ELSE LET fixed == fixOffset(objToLocalTS(c), offset(tz, clock), tz)
            IN [valid |-> TRUE, ts |-> fixed.ts, o |-> fixed.o, zone |-> tz]

\* weekdays counted from Sunday (1 = Sunday .. 7 = Saturday)
weekdayOf_sundayFirst(c) ==
    ((daysBeforeMonth(c.year, c.month) + c.day - 1 + 4) % 7) + 1

\* the ISO weekday (1 = Monday .. 7 = Sunday) of a wall clock reading;
\* 1 January 2026 is a Thursday
weekdayOf(c) == ((daysBeforeMonth(c.year, c.month) + c.day - 1 + 3) % 7) + 1

\* dt.startOf('week'): set({ weekday: 1, hour: 0, minute: 0, ... })
startOfWeek(dt) ==
    IF ~dt.valid THEN dt
    ELSE LET c == tsToObj(dt.ts, dt.o)
             monday == [c EXCEPT !.day = c.day - (weekdayOf(c) - 1),
                                 !.hour = 0, !.minute = 0]
             fixed == fixOffset(objToLocalTS(monday), dt.o, dt.zone)
         IN [dt EXCEPT !.ts = fixed.ts, !.o = fixed.o]

\* dt.startOf('month'): set({ day: 1, hour: 0, minute: 0, ... })
startOfMonth(dt) ==
    IF ~dt.valid THEN dt
    ELSE LET c == tsToObj(dt.ts, dt.o)
             first == [c EXCEPT !.day = 1, !.hour = 0, !.minute = 0]
             fixed == fixOffset(objToLocalTS(first), dt.o, dt.zone)
         IN [dt EXCEPT !.ts = fixed.ts, !.o = fixed.o]

\* dt.plus({ months: n }): adjustTime
plusMonths(dt, n) ==
    IF ~dt.valid THEN dt
    ELSE LET c == tsToObj(dt.ts, dt.o)
             moved == [c EXCEPT !.month = c.month + n,
                                !.day = IF c.day < daysInMonth(c.year, c.month + n)
                                        THEN c.day
                                        ELSE daysInMonth(c.year, c.month + n)]
             fixed == fixOffset(objToLocalTS(moved), dt.o, dt.zone)
         IN [dt EXCEPT !.ts = fixed.ts, !.o = fixed.o]

(***************************************************************************)
(* utils/time.js: the boundary functions                                   *)
(***************************************************************************)
getDayBounds(d, tz, clock) ==
    LET dayStart == startOfDay(fromFormat(d, tz, clock))
        dayEnd == plusDays(dayStart, 1)
    IN [dayStart |-> toJSDate(dayStart), dayEnd |-> toJSDate(dayEnd)]

RECURSIVE datesLoop(_, _, _)
\* the while loop of getWeekBounds and getMonthBounds: the date strings from
\* cursor on, a day apart, as long as cursor < end
datesLoop(cursor, end, acc) ==
    IF ~Lt(cursor, end) THEN acc
    ELSE datesLoop(plusDays(cursor, 1), end, Append(acc, toFormat(cursor)))

getWeekBounds(tz, clock) ==
    LET monday == startOfWeek(nowInZone(clock, tz))
        nextMonday == plusDays(monday, 7)
    IN [rangeStart |-> toJSDate(monday), rangeEnd |-> toJSDate(nextMonday),
        dates |-> datesLoop(monday, nextMonday, <<>>)]

getMonthBounds(tz, clock) ==
    LET monthStart == startOfMonth(nowInZone(clock, tz))
        nextMonth == plusMonths(monthStart, 1)
    IN [rangeStart |-> toJSDate(monthStart), rangeEnd |-> toJSDate(nextMonth),
        dates |-> datesLoop(monthStart, nextMonth, <<>>)]

(***************************************************************************)
(* utils/time.js: computeProgressPercent and formatDuration.  A JavaScript *)
(* number that need not be whole is the fraction num / den in lowest       *)
(* terms, den > 0; the rounding of doubles is not modelled.                *)
(***************************************************************************)
MsPerHour == 60 * MsPerMinute

RECURSIVE gcd(_, _)
gcd(a, b) == IF b = 0 THEN a ELSE gcd(b, a % b)

\* the number n / d, n >= 0 and d > 0
Frac(n, d) == [num |-> n \div gcd(n, d), den |-> d \div gcd(n, d)]

\* a * k for a whole k > 0
fracTimes(a, k) == Frac(a.num * (k \div gcd(k, a.den)), a.den \div gcd(k, a.den))

\* n / b for a whole n >= 0 and b > 0
fracOver(n, b) == Frac((n \div gcd(n, b.num)) * b.den, b.num \div gcd(n, b.num))

RECURSIVE fracLe(_, _)
\* a <= b for a, b >= 0, by whole parts and then by the remainders
fracLe(a, b) ==
    LET qa == a.num \div a.den
        qb == b.num \div b.den
        ra == a.num % a.den
        rb == b.num % b.den
    IN IF qa # qb THEN qa < qb
       ELSE IF ra = 0 THEN TRUE
       ELSE IF rb = 0 THEN FALSE
       ELSE fracLe([num |-> b.den, den |-> rb], [num |-> a.den, den |-> ra])

\* Math.min(a, b)
mathMin(a, b) == IF fracLe(a, b) THEN a ELSE b

\* a goal that is not positive counts for nothing instead of for everything
computeProgressPercent_zeroForNoGoal(worked, goal) ==
    IF goal.num <= 0 THEN Frac(0, 1)
    ELSE mathMin(Frac(100, 1),
                 fracTimes(fracOver(worked, fracTimes(goal, MsPerHour)), 100))

\* the percentage is not capped
computeProgressPercent_uncapped(worked, goal) ==
    IF goal.num <= 0 THEN Frac(100, 1)
    ELSE fracTimes(fracOver(worked, fracTimes(goal, MsPerHour)), 100)

computeProgressPercent(worked, goal) ==
    IF goal.num <= 0 THEN Frac(100, 1)
    ELSE LET goalMs == fracTimes(goal, MsPerHour)
         IN mathMin(Frac(100, 1), fracTimes(fracOver(worked, goalMs), 100))

RECURSIVE padStart(_, _, _)
\* text.padStart(targetLength, fill) for a fill of one character
padStart(text, targetLength, fill) ==
    IF Len(text) >= targetLength THEN text
    ELSE padStart(fill \o text, targetLength, fill)

\* the hours wrap at 100 so that the field keeps two digits
formatDuration_clampedHours(millis) ==
    LET totalMinutes == millis \div MsPerMinute
        hours == (totalMinutes \div 60) % 100
        minutes == totalMinutes % 60
    IN padStart(ToString(hours), 2, "0") \o ":" \o padStart(ToString(minutes), 2, "0")

\* the minutes are rounded to the nearest instead of cut off
formatDuration_rounded(millis) ==
    LET totalMinutes == (millis + MsPerMinute \div 2) \div MsPerMinute
        hours == totalMinutes \div 60
        minutes == totalMinutes % 60
    IN padStart(ToString(hours), 2, "0") \o ":" \o padStart(ToString(minutes), 2, "0")

\* for millis >= 0, where Math.floor and % are \div and %
formatDuration(millis) ==
    LET totalMinutes == millis \div MsPerMinute
        hours == totalMinutes \div 60
        minutes == totalMinutes % 60
    IN padStart(ToString(hours), 2, "0") \o ":" \o padStart(ToString(minutes), 2, "0")

(***************************************************************************)
(* The inputs.                                                             *)
(***************************************************************************)
\* session starts: every half hour of two windows, each opening at 18:00Z on
\* the eve of a clock change
StartTimes ==
    { base + 30 * k : base \in {(SpringDay - 1) * MinutesPerDay + 18 * 60,
                                (AutumnDay - 1) * MinutesPerDay + 18 * 60},
                      k \in 0 .. WindowSteps }

\* session lengths in minutes: inverted, empty, and every whole hour
Durations == { 60 * h : h \in -1 .. MaxDurHours }

(***************************************************************************)
(* Each specification drives one part of the program and leaves the        *)
(* variables of the other parts at rest.                                   *)
(***************************************************************************)
HelpersAtRest == workedMs = 0 /\ goalHours = [num |-> 1, den |-> 1] /\ ms = 0

RoutesAtRest ==
    /\ docs = <<>> /\ reqs = <<>>
    /\ users = <<>> /\ invites = <<>> /\ goals = <<>> /\ tokens = <<>>
    /\ auditLogs = <<>>

LoopAtRest == loopCursor = 0 /\ loopCount = 0

(***************************************************************************)
(* Specification of the splitting of one session.                          *)
(***************************************************************************)
Init ==
    /\ timezone \in Zones
    /\ \E s \in StartTimes, d \in Durations, open \in BOOLEAN :
          /\ session = [startAt |-> s, endAt |-> IF open THEN Null ELSE s + d]
          /\ now = IF open THEN s + d ELSE s + d + NowLag
    /\ sessions = <<>>
    /\ date = ""
    /\ dates = <<>>
    /\ LoopAtRest
    /\ HelpersAtRest
    /\ RoutesAtRest
    /\ called = "none"
    /\ result = <<>>
    /\ thrown = ""

CallSplitSessionByDay ==
    /\ called = "none"
    /\ called' = "splitSessionByDay"
    /\ result' = splitSessionByDay(session, timezone, now)
    /\ thrown' = ""
    /\ UNCHANGED <<timezone, now, session, sessions, date, dates, loopVars>>
    /\ UNCHANGED <<helperVars, routeVars>>

Next == CallSplitSessionByDay

Spec == Init /\ [][Next]_vars

(***************************************************************************)
(* Specification of the totals over a collection of sessions.              *)
(***************************************************************************)
\* the sessions a user may have around the night of 31 October: started at
\* 18:00Z or 03:00Z, ended after 2 or 30 hours or still active
TotalSessions ==
    { [startAt |-> s, endAt |-> IF h = 0 THEN Null ELSE s + 60 * h] :
        s \in { (AutumnDay - 1) * MinutesPerDay + 18 * 60,
                AutumnDay * MinutesPerDay + 3 * 60 },
        h \in {0, 2, 30} }

RECURSIVE SeqsUpTo(_, _)
\* the sequences of at most n elements of S
SeqsUpTo(S, n) ==
    IF n = 0 THEN { <<>> }
    ELSE LET shorter == SeqsUpTo(S, n - 1)
         IN shorter \cup { Append(q, x) : q \in shorter, x \in S }

TargetDates == { "2026-10-31", "2026-11-01", "2026-11-02" }

InitTotal ==
    /\ timezone \in Zones
    /\ sessions \in SeqsUpTo(TotalSessions, MaxSessions)
    /\ now \in { AutumnDay * MinutesPerDay + 60 * h : h \in {6, 30} }
    /\ session = [startAt |-> 0, endAt |-> Null]
    /\ date = ""
    /\ dates = <<>>
    /\ LoopAtRest
    /\ HelpersAtRest
    /\ RoutesAtRest
    /\ called = "none"
    /\ result = 0
    /\ thrown = ""

CallComputeDayTotal ==
    /\ called = "none"
    /\ \E d \in TargetDates :
          /\ date' = d
          /\ result' = computeDayTotal(sessions, d, timezone, now)
    /\ called' = "computeDayTotal"
    /\ thrown' = ""
    /\ UNCHANGED <<timezone, now, session, sessions, dates, loopVars>>
    /\ UNCHANGED <<helperVars, routeVars>>

CallComputeRangeTotal ==
    /\ called = "none"
    /\ \E ds \in SeqsUpTo(TargetDates, MaxDates) :
          /\ dates' = ds
          /\ result' = computeRangeTotal(sessions, ds, timezone, now)
    /\ called' = "computeRangeTotal"
    /\ thrown' = ""
    /\ UNCHANGED <<timezone, now, session, sessions, date, loopVars>>
    /\ UNCHANGED <<helperVars, routeVars>>

NextTotal == CallComputeDayTotal \/ CallComputeRangeTotal

SpecTotal == InitTotal /\ [][NextTotal]_vars

(***************************************************************************)
(* Specification of the boundary functions.                                *)
(***************************************************************************)
\* wall clock readings: every six hours of the fortnights around the two
\* clock changes (which hold the ends of February and October), and every
\* half hour of the nights of the clock changes and of Monday 2 November
Clocks ==
    { base + 6 * 60 * k :
        base \in { (SpringDay - 10) * MinutesPerDay,
                   (AutumnDay - 10) * MinutesPerDay },
        k \in 0 .. 2 * WindowSteps }
    \cup StartTimes
    \cup { AutumnDay * MinutesPerDay + 18 * 60 + 30 * k : k \in 0 .. WindowSteps }

\* the days asked of getDayBounds: the eve, the day and the morrow of each
\* clock change, and the last day of February
BoundDates ==
    { "2026-02-28", "2026-03-07", "2026-03-08", "2026-03-09",
      "2026-10-31", "2026-11-01", "2026-11-02" }

InitBounds ==
    /\ timezone \in Zones
    /\ now \in Clocks
    /\ session = [startAt |-> 0, endAt |-> Null]
    /\ sessions = <<>>
    /\ date = ""
    /\ dates = <<>>
    /\ LoopAtRest
    /\ HelpersAtRest
    /\ RoutesAtRest
    /\ called = "none"
    /\ result = [dayStart |-> NaN, dayEnd |-> NaN]
    /\ thrown = ""

CallGetDayBounds ==
    /\ called = "none"
    /\ \E d \in BoundDates :
          /\ date' = d
          /\ result' = getDayBounds(d, timezone, now)
    /\ called' = "getDayBounds"
    /\ thrown' = ""
    /\ UNCHANGED <<timezone, now, session, sessions, dates, loopVars>>
    /\ UNCHANGED <<helperVars, routeVars>>

CallGetWeekBounds ==
    /\ called = "none"
    /\ result' = getWeekBounds(timezone, now)
    /\ called' = "getWeekBounds"
    /\ thrown' = ""
    /\ UNCHANGED <<engineVars, helperVars, routeVars>>

CallGetMonthBounds ==
    /\ called = "none"
    /\ result' = getMonthBounds(timezone, now)
    /\ called' = "getMonthBounds"
    /\ thrown' = ""
    /\ UNCHANGED <<engineVars, helperVars, routeVars>>

NextBounds == CallGetDayBounds \/ CallGetWeekBounds \/ CallGetMonthBounds

SpecBounds == InitBounds /\ [][NextBounds]_vars

(***************************************************************************)
(* Specification of computeProgressPercent and formatDuration.             *)
(***************************************************************************)
\* worked times in ms: nothing, a millisecond, a millisecond short of a
\* minute, and every quarter of an hour
WorkedTimes ==
    {0, 1, MsPerMinute - 1} \cup { 15 * MsPerMinute * k : k \in 0 .. MaxWorkedQuarters }

\* goals in hours: negative, none, the least and the most a user may set
\* (0.5 and 24), the default (8) and one that is not whole (1.5)
GoalHours ==
    { [num |-> 0 - 1, den |-> 1], [num |-> 0, den |-> 1], [num |-> 1, den |-> 2],
      [num |-> 3, den |-> 2], [num |-> 8, den |-> 1], [num |-> 24, den |-> 1] }

\* durations in ms: every whole minute, and a millisecond short of the next
FormatTimes ==
    { MsPerMinute * m + r : m \in 0 .. MaxFormatMinutes, r \in {0, MsPerMinute - 1} }

InitHelpers ==
    /\ timezone = "Asia/Kolkata"
    /\ now = 0
    /\ session = [startAt |-> 0, endAt |-> Null]
    /\ sessions = <<>>
    /\ date = ""
    /\ dates = <<>>
    /\ LoopAtRest
    /\ HelpersAtRest
    /\ RoutesAtRest
    /\ called = "none"
    /\ result = ""
    /\ thrown = ""

CallComputeProgressPercent ==
    /\ called = "none"
    /\ \E w \in WorkedTimes, g \in GoalHours :
          /\ workedMs' = w
          /\ goalHours' = g
          /\ result' = computeProgressPercent(w, g)
    /\ called' = "computeProgressPercent"
    /\ thrown' = ""
    /\ UNCHANGED <<engineVars, ms, routeVars>>

CallFormatDuration ==
    /\ called = "none"
    /\ \E m \in FormatTimes :
          /\ ms' = m
          /\ result' = formatDuration(m)
    /\ called' = "formatDuration"
    /\ thrown' = ""
    /\ UNCHANGED <<engineVars, workedMs, goalHours, routeVars>>

NextHelpers == CallComputeProgressPercent \/ CallFormatDuration

SpecHelpers == InitHelpers /\ [][NextHelpers]_vars

(***************************************************************************)
(* routes/sessions.js: POST /start and PATCH /end.  docs is the Session    *)
(* collection in insertion order and reqs the requests received, each with *)
(* the place its handler has come to: the store answers an await some time *)
(* after it was asked, and the handlers of other requests run in between.  *)
(* The store is taken to answer every query (no 500).                      *)
(***************************************************************************)
Users == {"u1", "u2"}

\* the sessions of user u in collection d that have endAt: null
openSessions(d, u) == { i \in 1 .. Len(d) : d[i].userId = u /\ d[i].endAt = Null }

\* Session.findOne({ endAt: null }): the filter forgets the user
findOne_anyUser(d, u) ==
    IF { i \in 1 .. Len(d) : d[i].endAt = Null } = {} THEN {0}
    ELSE { i \in 1 .. Len(d) : d[i].endAt = Null }

\* Session.findOne({ userId, endAt: null }): one of the matching documents (0
\* stands for null); which one of several is the store's choice
findOne(d, u) == IF openSessions(d, u) = {} THEN {0} ELSE openSessions(d, u)

InitRoutes ==
    /\ timezone = "Asia/Kolkata"
    /\ now = 0
    /\ session = [startAt |-> 0, endAt |-> Null]
    /\ sessions = <<>>
    /\ date = ""
    /\ dates = <<>>
    /\ LoopAtRest
    /\ HelpersAtRest
    /\ RoutesAtRest
    /\ called = "none"
    /\ result = ""
    /\ thrown = ""

RoutesFrame ==
    UNCHANGED <<timezone, session, sessions, date, dates, loopVars, helperVars,
                storeVars,
                called, result, thrown>>

\* a request arrives, authenticated as user u
Receive(kind, u) ==
    /\ Len(reqs) < MaxRequests
    /\ reqs' = Append(reqs, [kind |-> kind, userId |-> u, pc |-> "findOne",
                             found |-> 0, at |-> Null, status |-> 0])
    /\ UNCHANGED <<docs, now>>
    /\ RoutesFrame

ReceivePostStart == \E u \in Users : Receive("start", u)

ReceivePatchEnd == \E u \in Users : Receive("end", u)

\* await Session.findOne({ userId: req.userId, endAt: null }) of POST /start
StartFindOne(r) ==
    /\ reqs[r].kind = "start"
    /\ reqs[r].pc = "findOne"
    /\ \E f \in findOne(docs, reqs[r].userId) :
          reqs' = [reqs EXCEPT ![r].found = f, ![r].pc = "checked"]
    /\ UNCHANGED <<docs, now>>
    /\ RoutesFrame

\* the check is left out: the handler goes on to create whatever it found
StartCheck_noReject(r) ==
    /\ reqs[r].kind = "start"
    /\ reqs[r].pc = "checked"
    /\ reqs' = [reqs EXCEPT ![r].at = now, ![r].pc = "save"]
    /\ UNCHANGED <<docs, now>>
    /\ RoutesFrame

\* if (activeSession) return res.status(400)...; else new Session({ userId,
\* startAt: new Date() }) and the call of save()
StartCheck(r) ==
    /\ reqs[r].kind = "start"
    /\ reqs[r].pc = "checked"
    /\ reqs' = IF reqs[r].found # 0
               THEN [reqs EXCEPT ![r].status = 400, ![r].pc = "done"]
               ELSE [reqs EXCEPT ![r].at = now, ![r].pc = "save"]
    /\ UNCHANGED <<docs, now>>
    /\ RoutesFrame

\* await session.save() of POST /start, and res.status(201)
StartSave(r) ==
    /\ reqs[r].kind = "start"
    /\ reqs[r].pc = "save"
    /\ docs' = Append(docs, [userId |-> reqs[r].userId, startAt |-> reqs[r].at,
                             endAt |-> Null])
    /\ reqs' = [reqs EXCEPT ![r].status = 201, ![r].pc = "done"]
    /\ UNCHANGED now
    /\ RoutesFrame

\* await Session.findOne({ userId: req.userId, endAt: null }) of PATCH /end
EndFindOne(r) ==
    /\ reqs[r].kind = "end"
    /\ reqs[r].pc = "findOne"
    /\ \E f \in findOne(docs, reqs[r].userId) :
          reqs' = [reqs EXCEPT ![r].found = f, ![r].pc = "checked"]
    /\ UNCHANGED <<docs, now>>
    /\ RoutesFrame

\* if (!session) return res.status(400)...; else session.endAt = new Date()
\* and the call of save()
EndCheck(r) ==
    /\ reqs[r].kind = "end"
    /\ reqs[r].pc = "checked"
    /\ reqs' = IF reqs[r].found = 0
               THEN [reqs EXCEPT ![r].status = 400, ![r].pc = "done"]
               ELSE [reqs EXCEPT ![r].at = now, ![r].pc = "save"]
    /\ UNCHANGED <<docs, now>>
    /\ RoutesFrame

\* await session.save() of PATCH /end: the document found gets its modified
\* path, endAt, written; and res.json (200)
EndSave(r) ==
    /\ reqs[r].kind = "end"
    /\ reqs[r].pc = "save"
    /\ docs' = [docs EXCEPT ![reqs[r].found].endAt = reqs[r].at]
    /\ reqs' = [reqs EXCEPT ![r].status = 200, ![r].pc = "done"]
    /\ UNCHANGED now
    /\ RoutesFrame

\* the clock moves on
Tick ==
    /\ now < MaxClock
    /\ now' = now + 1
    /\ UNCHANGED <<docs, reqs>>
    /\ RoutesFrame

NextRoutes ==
    \/ ReceivePostStart
    \/ ReceivePatchEnd
    \/ \E r \in 1 .. Len(reqs) : StartFindOne(r)
    \/ \E r \in 1 .. Len(reqs) : StartCheck(r)
    \/ \E r \in 1 .. Len(reqs) : StartSave(r)
    \/ \E r \in 1 .. Len(reqs) : EndFindOne(r)
    \/ \E r \in 1 .. Len(reqs) : EndCheck(r)
    \/ \E r \in 1 .. Len(reqs) : EndSave(r)
    \/ Tick

SpecRoutes == InitRoutes /\ [][NextRoutes]_vars

(***************************************************************************)
(* routes/goals.js (GET /, PUT /) and GET /today/summary of                *)
(* routes/sessions.js.  users, goals and docs are the User, DailyGoal and  *)
(* Session collections in insertion order; a user's id is its place in     *)
(* users.  PUT is one await (findOneAndUpdate); the two GET handlers are   *)
(* one step for each await.                                                *)
(***************************************************************************)
\* /^\d{4}-\d{2}-\d{2}$/.test(text)
matchesDate(text) ==
    /\ Len(text) = 10
    /\ \A i \in 1 .. 10 :
          IF i \in {5, 8} THEN SubSeq(text, i, i) = "-"
          ELSE \E d \in 0 .. 9 : SubSeq(text, i, i) = ToString(d)

\* isFloat({ min: 0.5, max: 24 }) and the schema's min / max
isGoalInRange(g) == g.num >= 0 /\ fracLe(Frac(1, 2), g) /\ fracLe(g, Frac(24, 1))

\* the places of the documents of collection gs that match { userId, date }
goalMatches(gs, u, d) == { i \in 1 .. Len(gs) : gs[i].userId = u /\ gs[i].date = d }

\* DailyGoal.findOne({ userId, date }): the document, or 0 for null (the
\* unique index leaves at most one)
goalFindOne(gs, u, d) ==
    IF goalMatches(gs, u, d) = {} THEN 0 ELSE CHOOSE i \in goalMatches(gs, u, d) : TRUE

\* the filter forgets the user: { date }
findOneAndUpdate_byDateOnly(gs, u, d, g) ==
    IF { i \in 1 .. Len(gs) : gs[i].date = d } = {}
    THEN Append(gs, [userId |-> u, date |-> d, goalHours |-> g])
    ELSE [gs EXCEPT ![CHOOSE i \in 1 .. Len(gs) : gs[i].date = d].goalHours = g]

\* DailyGoal.findOneAndUpdate({ userId, date }, { goalHours }, { upsert: true }):
\* the collection afterwards
findOneAndUpdate(gs, u, d, g) ==
    IF goalFindOne(gs, u, d) = 0
    THEN Append(gs, [userId |-> u, date |-> d, goalHours |-> g])
    ELSE [gs EXCEPT ![goalFindOne(gs, u, d)].goalHours = g]

\* getTodayInTimezone(timezone)
getTodayInTimezone(tz, clock) == toFormat(nowInZone(clock, tz))

\* the filter of Session.find in the day summary: startAt < dayEnd and
\* (endAt >= dayStart or endAt: null)
overlapsDay(s, dayStart, dayEnd) ==
    /\ s.startAt < dayEnd
    /\ (s.endAt = Null \/ s.endAt >= dayStart)

RECURSIVE sortByStartAt(_)
\* .sort({ startAt: 1 })
sortByStartAt(ss) ==
    IF ss = <<>> THEN <<>>
    ELSE LET first == CHOOSE i \in 1 .. Len(ss) :
                          \A j \in 1 .. Len(ss) :
                              \/ ss[i].startAt < ss[j].startAt
                              \/ (ss[i].startAt = ss[j].startAt /\ i <= j)
         IN <<ss[first]>> \o
            sortByStartAt(SubSeq(ss, 1, first - 1) \o SubSeq(ss, first + 1, Len(ss)))

\* Session.find({ userId, startAt: { $lt: dayEnd }, $or: [...] }).sort(...)
sessionFind(ds, u, dayStart, dayEnd) ==
    LET matches(s) == s.userId = u /\ overlapsDay(s, dayStart, dayEnd)
    IN sortByStartAt(SelectSeq(ds, matches))

\* the dates asked about
GoalDates == {"2026-11-01", "2026-11-02"}

\* the bodies of PUT: the least and the most goal allowed and one in
\* between, a date that is none, a goal too large and one too small
PutBodies ==
    { [date |-> "2026-11-01", goalHours |-> Frac(6, 1)],
      [date |-> "2026-11-01", goalHours |-> Frac(1, 2)],
      [date |-> "2026-11-02", goalHours |-> Frac(24, 1)],
      [date |-> "invalid", goalHours |-> Frac(6, 1)],
      [date |-> "2026-11-01", goalHours |-> Frac(25, 1)],
      [date |-> "2026-11-02", goalHours |-> Frac(1, 4)] }

InitGoals ==
    /\ timezone = "Asia/Kolkata"
    /\ now = AutumnDay * MinutesPerDay
    /\ session = [startAt |-> 0, endAt |-> Null]
    /\ sessions = <<>>
    /\ date = ""
    /\ dates = <<>>
    /\ LoopAtRest
    /\ HelpersAtRest
    /\ docs = <<>>
    /\ reqs = <<>>
    /\ users = << [email |-> "a@x.io", isAdmin |-> FALSE, timezone |-> "Asia/Kolkata",
                   defaultDailyGoal |-> Frac(8, 1)],
                  [email |-> "b@x.io", isAdmin |-> FALSE, timezone |-> "America/New_York",
                   defaultDailyGoal |-> Frac(3, 2)] >>
    /\ invites = <<>>
    /\ goals = <<>>
    /\ tokens = <<>>
    /\ auditLogs = <<>>
    /\ called = "none"
    /\ result = [status |-> 0, userId |-> 0, date |-> "", goalHours |-> Frac(0, 1),
                 puts |-> 0]
    /\ thrown = ""

GoalsFrame ==
    UNCHANGED <<engineVars, helperVars, docs, users, invites, tokens, auditLogs,
                thrown>>

\* PUT /api/goals: validate(goalRules), then the upsert
PutGoals(u, d, g) ==
    /\ result.puts < MaxPuts
    /\ IF matchesDate(d) /\ isGoalInRange(g)
       THEN /\ goals' = findOneAndUpdate(goals, u, d, g)
            /\ result' = [status |-> 200, userId |-> u, date |-> d, goalHours |-> g,
                          puts |-> result.puts + 1]
       ELSE /\ goals' = goals
            /\ result' = [status |-> 400, userId |-> u, date |-> d, goalHours |-> g,
                          puts |-> result.puts + 1]
    /\ called' = "PUT /api/goals"
    /\ UNCHANGED reqs
    /\ GoalsFrame

PutGoalsRequest ==
    \E u \in 1 .. Len(users), b \in PutBodies : PutGoals(u, b.date, b.goalHours)

\* a GET request arrives: /api/goals or /api/sessions/today/summary, with or
\* without ?date=
ReceiveGet(kind, u, q) ==
    /\ Len(reqs) < MaxReads
    /\ reqs' = Append(reqs, [kind |-> kind, userId |-> u, query |-> q,
                             pc |-> "findById", date |-> "", user |-> users[u],
                             totalMs |-> 0, goalHours |-> Frac(0, 1),
                             isDefault |-> FALSE, progressPercent |-> Frac(0, 1),
                             status |-> 0])
    /\ UNCHANGED <<goals, called, result>>
    /\ GoalsFrame

ReceiveGetGoals == \E u \in 1 .. Len(users), q \in GoalDates \cup {""} : ReceiveGet("goals", u, q)

ReceiveGetSummary ==
    \E u \in 1 .. Len(users), q \in GoalDates \cup {""} : ReceiveGet("summary", u, q)

\* await User.findById(req.userId), and the date asked about
GetFindById(r) ==
    /\ reqs[r].pc = "findById"
    /\ reqs' = [reqs EXCEPT
          ![r].user = users[reqs[r].userId],
          ![r].date = IF reqs[r].query # "" /\ matchesDate(reqs[r].query)
                      THEN reqs[r].query
                      ELSE getTodayInTimezone(users[reqs[r].userId].timezone, now),
          ![r].pc = IF reqs[r].kind = "summary" THEN "find" ELSE "findOne"]
    /\ UNCHANGED <<goals, called, result>>
    /\ GoalsFrame

\* await Session.find(...) of the day summary, and computeDayTotal
SummaryFind(r) ==
    /\ reqs[r].kind = "summary"
    /\ reqs[r].pc = "find"
    /\ LET tz == reqs[r].user.timezone
           bounds == getDayBounds(reqs[r].date, tz, now)
           found == sessionFind(docs, reqs[r].userId, bounds.dayStart, bounds.dayEnd)
       IN reqs' = [reqs EXCEPT
             ![r].totalMs = computeDayTotal(found, reqs[r].date, tz, now),
             ![r].pc = "findOne"]
    /\ UNCHANGED <<goals, called, result>>
    /\ GoalsFrame

\* await DailyGoal.findOne({ userId, date }) and the answer
GetFindOne(r) ==
    /\ reqs[r].pc = "findOne"
    /\ LET goalDoc == goalFindOne(goals, reqs[r].userId, reqs[r].date)
           hours == IF goalDoc # 0 THEN goals[goalDoc].goalHours
                    ELSE reqs[r].user.defaultDailyGoal
       IN reqs' = [reqs EXCEPT
             ![r].goalHours = hours,
             ![r].isDefault = (goalDoc = 0),
             ![r].progressPercent = computeProgressPercent(reqs[r].totalMs, hours),
             ![r].status = 200,
             ![r].pc = "done"]
    /\ UNCHANGED <<goals, called, result>>
    /\ GoalsFrame

NextGoals ==
    \/ PutGoalsRequest
    \/ ReceiveGetGoals
    \/ ReceiveGetSummary
    \/ \E r \in 1 .. Len(reqs) : GetFindById(r)
    \/ \E r \in 1 .. Len(reqs) : SummaryFind(r)
    \/ \E r \in 1 .. Len(reqs) : GetFindOne(r)

SpecGoals == InitGoals /\ [][NextGoals]_vars

(***************************************************************************)
(* Specification of POST /api/auth/register.  The handler is one step per  *)
(* await; the clock is read where the code reads it.                       *)
(***************************************************************************)
\* the most registrations received in one run
MaxRegistrations == 2

\* what a body may carry as inviteToken: registerRules has no rule for the
\* field, so express.json() hands over a string or any JSON object
StringToken(t) == [kind |-> "string", value |-> t]
NotEqualTo(t) == [kind |-> "$ne", value |-> t]
NoToken == StringToken("")

\* if (inviteToken): the empty string is falsy, an object is truthy
isTruthy(tok) == tok.kind # "string" \/ tok.value # ""

\* the filter { token: inviteToken } of AdminInvite.findOne
matchesToken(inv, tok) ==
    IF tok.kind = "string" THEN inv.token = tok.value ELSE inv.token # tok.value

\* AdminInvite.findOne({ token: inviteToken }): 0 is null
inviteFindOne(invs, tok) ==
    LET m == { i \in 1 .. Len(invs) : matchesToken(invs[i], tok) }
    IN  IF m = {} THEN {0} ELSE m

\* inviteSchema.methods.isValid
isValid(inv, clock) == inv.usedAt = Null /\ inv.expiresAt > clock

\* User.findOne({ email }): 0 is null
userFindOne(us, email) ==
    IF \E i \in 1 .. Len(us) : us[i].email = email
    THEN CHOOSE i \in 1 .. Len(us) : us[i].email = email
    ELSE 0

\* new User({ ..., timezone: timezone || 'Asia/Kolkata',
\*            defaultDailyGoal: defaultDailyGoal || 8, isAdmin: grantAdmin })
newUser(email, grantAdmin) ==
    [email |-> email, isAdmin |-> grantAdmin, timezone |-> "Asia/Kolkata",
     defaultDailyGoal |-> Frac(8, 1)]

\* jwt.sign({ userId, isAdmin }) of setTokenCookie
setTokenCookie(userId, isAdmin) == [userId |-> userId, isAdmin |-> isAdmin]

\* what a request holds before AdminInvite.findOne has answered
NoInvite == [token |-> "", email |-> "", expiresAt |-> 0, usedAt |-> Null,
             invitedByUserId |-> 0]

RegisterBodies ==
    { [email |-> "c@x.io", inviteToken |-> NoToken, isAdmin |-> FALSE],
      [email |-> "d@x.io", inviteToken |-> NoToken, isAdmin |-> TRUE],
      [email |-> "c@x.io", inviteToken |-> StringToken("t1"), isAdmin |-> FALSE],
      [email |-> "d@x.io", inviteToken |-> StringToken("t1"), isAdmin |-> FALSE],
      [email |-> "c@x.io", inviteToken |-> StringToken("zz"), isAdmin |-> FALSE],
      [email |-> "c@x.io", inviteToken |-> NotEqualTo(""), isAdmin |-> FALSE] }

\* one admin exists and has invited c@x.io; the invite expires when the
\* clock reads 1
InitAuth ==
    /\ timezone = "Asia/Kolkata"
    /\ now = 0
    /\ session = [startAt |-> 0, endAt |-> Null]
    /\ sessions = <<>>
    /\ date = ""
    /\ dates = <<>>
    /\ LoopAtRest
    /\ HelpersAtRest
    /\ docs = <<>>
    /\ reqs = <<>>
    /\ users = << [email |-> "root@x.io", isAdmin |-> TRUE,
                   timezone |-> "Asia/Kolkata", defaultDailyGoal |-> Frac(8, 1)] >>
    /\ invites = << [token |-> "t1", email |-> "c@x.io", expiresAt |-> 1,
                     usedAt |-> Null, invitedByUserId |-> 1] >>
    /\ goals = <<>>
    /\ tokens = <<>>
    /\ auditLogs = <<>>
    /\ called = "none"
    /\ result = ""
    /\ thrown = ""

AuthFrame == UNCHANGED <<engineVars, helperVars, docs, goals, called, result, thrown>>

\* a registration arrives; "late" remembers whether a registration with the
\* same token had been answered 201 before this one arrived
ReceiveRegister ==
    /\ Len(reqs) < MaxRegistrations
    /\ \E b \in RegisterBodies :
          reqs' = Append(reqs,
                     [kind |-> "register", email |-> b.email,
                      inviteToken |-> b.inviteToken, isAdmin |-> b.isAdmin,
                      pc |-> "findUser", invite |-> 0, seen |-> NoInvite,
                      grantAdmin |-> FALSE, user |-> 0,
                      late |-> \E a \in 1 .. Len(reqs) :
                                  /\ reqs[a].inviteToken = b.inviteToken
                                  /\ reqs[a].status = 201,
                      status |-> 0])
    /\ UNCHANGED storeVars
    /\ AuthFrame

\* const existingUser = await User.findOne({ email }); 409 when there is one
RegFindUser(r) ==
    /\ reqs[r].kind = "register"
    /\ reqs[r].pc = "findUser"
    /\ reqs' = IF userFindOne(users, reqs[r].email) # 0
               THEN [reqs EXCEPT ![r].status = 409, ![r].pc = "done"]
               ELSE IF isTruthy(reqs[r].inviteToken)
                    THEN [reqs EXCEPT ![r].pc = "findInvite"]
                    ELSE [reqs EXCEPT ![r].pc = "saveUser"]
    /\ UNCHANGED storeVars
    /\ AuthFrame

\* invite = await AdminInvite.findOne({ token: inviteToken })
RegFindInvite(r) ==
    /\ reqs[r].kind = "register"
    /\ reqs[r].pc = "findInvite"
    /\ \E i \in inviteFindOne(invites, reqs[r].inviteToken) :
          reqs' = [reqs EXCEPT ![r].invite = i,
                               ![r].seen = IF i = 0 THEN NoInvite ELSE invites[i],
                               ![r].pc = "checkInvite"]
    /\ UNCHANGED storeVars
    /\ AuthFrame

\* the handler only asks whether the invite exists
RegCheckInvite_existsOnly(r) ==
    /\ reqs[r].kind = "register"
    /\ reqs[r].pc = "checkInvite"
    /\ reqs' = IF reqs[r].invite = 0
               THEN [reqs EXCEPT ![r].status = 400, ![r].pc = "done"]
               ELSE [reqs EXCEPT ![r].grantAdmin = TRUE, ![r].pc = "saveUser"]
    /\ UNCHANGED storeVars
    /\ AuthFrame

\* if (!invite) 400; if (!invite.isValid()) 400; if (invite.email !== email) 400;
\* grantAdmin = true
RegCheckInvite(r) ==
    /\ reqs[r].kind = "register"
    /\ reqs[r].pc = "checkInvite"
    /\ reqs' = IF \/ reqs[r].invite = 0
                  \/ ~isValid(reqs[r].seen, now)
                  \/ reqs[r].seen.email # reqs[r].email
               THEN [reqs EXCEPT ![r].status = 400, ![r].pc = "done"]
               ELSE [reqs EXCEPT ![r].grantAdmin = TRUE, ![r].pc = "saveUser"]
    /\ UNCHANGED storeVars
    /\ AuthFrame

\* await user.save(): the unique index on email makes a second insert throw,
\* which the catch answers with 500; without an invite the handler goes on to
\* setTokenCookie and 201
RegSaveUser(r) ==
    /\ reqs[r].kind = "register"
    /\ reqs[r].pc = "saveUser"
    /\ IF userFindOne(users, reqs[r].email) # 0
       THEN /\ reqs' = [reqs EXCEPT ![r].status = 500, ![r].pc = "done"]
            /\ UNCHANGED <<users, tokens>>
       ELSE /\ users' = Append(users, newUser(reqs[r].email, reqs[r].grantAdmin))
            /\ IF reqs[r].invite # 0
               THEN /\ reqs' = [reqs EXCEPT ![r].user = Len(users) + 1,
                                            ![r].pc = "saveInvite"]
                    /\ UNCHANGED tokens
               ELSE /\ reqs' = [reqs EXCEPT ![r].user = Len(users) + 1,
                                            ![r].status = 201, ![r].pc = "done"]
                    /\ tokens' = Append(tokens,
                                     setTokenCookie(Len(users) + 1, reqs[r].grantAdmin))
    /\ UNCHANGED <<invites, goals, auditLogs>>
    /\ UNCHANGED <<engineVars, helperVars, docs, called, result, thrown>>

\* invite.usedAt = new Date(); await invite.save()
RegSaveInvite(r) ==
    /\ reqs[r].kind = "register"
    /\ reqs[r].pc = "saveInvite"
    /\ invites' = [invites EXCEPT ![reqs[r].invite].usedAt = now]
    /\ reqs' = [reqs EXCEPT ![r].pc = "audit"]
    /\ UNCHANGED <<users, tokens, auditLogs>>
    /\ AuthFrame

\* await AuditLog.record('INVITE_USED', ...); setTokenCookie; 201
RegAudit(r) ==
    /\ reqs[r].kind = "register"
    /\ reqs[r].pc = "audit"
    /\ auditLogs' = Append(auditLogs, [action |-> "INVITE_USED",
                                       actorUserId |-> reqs[r].user,
                                       targetUserId |-> reqs[r].user])
    /\ tokens' = Append(tokens, setTokenCookie(reqs[r].user, users[reqs[r].user].isAdmin))
    /\ reqs' = [reqs EXCEPT ![r].status = 201, ![r].pc = "done"]
    /\ UNCHANGED <<users, invites>>
    /\ AuthFrame

NextAuth ==
    \/ ReceiveRegister
    \/ \E r \in 1 .. Len(reqs) : RegFindUser(r)
    \/ \E r \in 1 .. Len(reqs) : RegFindInvite(r)
    \/ \E r \in 1 .. Len(reqs) : RegCheckInvite(r)
    \/ \E r \in 1 .. Len(reqs) : RegSaveUser(r)
    \/ \E r \in 1 .. Len(reqs) : RegSaveInvite(r)
    \/ \E r \in 1 .. Len(reqs) : RegAudit(r)
    \/ Tick

SpecAuth == InitAuth /\ [][NextAuth]_vars

(***************************************************************************)
(* Specification of the /api/admin routes behind auth and adminOnly, and   *)
(* of POST /api/auth/login, which issues the cookies they are called with. *)
(***************************************************************************)
\* the most /api/admin requests received in one run
MaxAdminRequests == 2
\* the most logins received in one run
MaxLogins == 1

\* a JSON value of the body: express.json() keeps booleans and strings apart
JsonBoolean(b) == [kind |-> "boolean", value |-> IF b THEN "true" ELSE "false"]
JsonString(s) == [kind |-> "string", value |-> s]

\* !v of JavaScript: false and the empty string are falsy, other strings truthy
jsTruthy(v) == IF v.kind = "boolean" THEN v.value = "true" ELSE v.value # ""

\* body('makeAdmin').isBoolean(): the value, taken as a string, is one of these
isBoolean(v) == v.value \in {"true", "false", "1", "0"}

\* the cast of the Boolean path isAdmin when a value is assigned to it
castBoolean(v) == v.value \in {"true", "1", "yes"}

\* req.userId = decoded.userId
auth(tok) == tok.userId

\* the isAdmin claim that setTokenCookie signed, as adminOnly reads it off
\* the request
authIsAdmin(tok) == tok.isAdmin

\* User.findById(id): 0 is null
findById(us, id) == IF id \in 1 .. Len(us) THEN id ELSE 0

\* AdminInvite.findOne({ email, usedAt: null }): 0 is null
pendingInviteFindOne(invs, email) ==
    LET m == { i \in 1 .. Len(invs) : invs[i].email = email /\ invs[i].usedAt = Null }
    IN  IF m = {} THEN {0} ELSE m

\* expiresInHours || ... || 48, and Date.now() + hours, in hours
DefaultInviteHours == 48

PromoteBodies ==
    { [userId |-> 1, makeAdmin |-> JsonBoolean(FALSE)],
      [userId |-> 2, makeAdmin |-> JsonBoolean(FALSE)],
      [userId |-> 3, makeAdmin |-> JsonBoolean(TRUE)],
      [userId |-> 1, makeAdmin |-> JsonString("false")],
      [userId |-> 9, makeAdmin |-> JsonBoolean(TRUE)] }

InviteEmails == {"c@x.io"}

LoginBodies ==
    { [userId |-> 2, adminLogin |-> FALSE],
      [userId |-> 3, adminLogin |-> TRUE] }

\* two admins and one user, each holding the cookie of their last login
InitAdmin ==
    /\ timezone = "Asia/Kolkata"
    /\ now = 0
    /\ session = [startAt |-> 0, endAt |-> Null]
    /\ sessions = <<>>
    /\ date = ""
    /\ dates = <<>>
    /\ LoopAtRest
    /\ HelpersAtRest
    /\ docs = <<>>
    /\ reqs = <<>>
    /\ users = << [email |-> "root@x.io", isAdmin |-> TRUE,
                   timezone |-> "Asia/Kolkata", defaultDailyGoal |-> Frac(8, 1)],
                  [email |-> "a@x.io", isAdmin |-> TRUE,
                   timezone |-> "Asia/Kolkata", defaultDailyGoal |-> Frac(8, 1)],
                  [email |-> "b@x.io", isAdmin |-> FALSE,
                   timezone |-> "America/New_York", defaultDailyGoal |-> Frac(3, 2)] >>
    /\ invites = <<>>
    /\ goals = <<>>
    /\ tokens = << setTokenCookie(1, TRUE), setTokenCookie(2, TRUE),
                   setTokenCookie(3, FALSE) >>
    /\ auditLogs = <<>>
    /\ called = "none"
    /\ result = ""
    /\ thrown = ""

AdminFrame == UNCHANGED <<engineVars, helperVars, docs, goals, called, result, thrown>>

AdminKinds == {"promote", "invite"}

\* a request with cookie t reaches router.use(auth, adminOnly): auth decodes
\* the cookie and adminOnly's check of the claim answers 403 or goes on to
\* its query
ReceiveAdmin(kind, t, userId, makeAdmin, email) ==
    /\ Cardinality({ r \in 1 .. Len(reqs) : reqs[r].kind \in AdminKinds }) < MaxAdminRequests
    /\ reqs' = Append(reqs,
                  [kind |-> kind, userId |-> auth(tokens[t]),
                   isAdmin |-> authIsAdmin(tokens[t]),
                   target |-> userId, makeAdmin |-> makeAdmin, email |-> email,
                   adminLogin |-> FALSE,
                   pc |-> IF authIsAdmin(tokens[t]) THEN "adminOnly" ELSE "done",
                   user |-> FALSE, found |-> FALSE, expiresAt |-> 0,
                   status |-> IF authIsAdmin(tokens[t]) THEN 0 ELSE 403])
    /\ UNCHANGED storeVars
    /\ AdminFrame

ReceivePromote ==
    \E t \in 1 .. Len(tokens), b \in PromoteBodies :
       ReceiveAdmin("promote", t, b.userId, b.makeAdmin, "")

ReceiveInvite ==
    \E t \in 1 .. Len(tokens), e \in InviteEmails :
       ReceiveAdmin("invite", t, 0, JsonBoolean(FALSE), e)

\* the claim of the cookie is all that is asked
adminOnly_trustsClaim(r) ==
    /\ reqs[r].kind \in AdminKinds
    /\ reqs[r].pc = "adminOnly"
    /\ reqs' = [reqs EXCEPT ![r].user = TRUE,
                            ![r].pc = IF reqs[r].kind = "promote"
                                      THEN "findById" ELSE "findOne"]
    /\ UNCHANGED storeVars
    /\ AdminFrame

\* user = await User.findById(req.userId).select('isAdmin');
\* if (!user || !user.isAdmin) 403; next(), and the validation of the body
adminOnly(r) ==
    /\ reqs[r].kind \in AdminKinds
    /\ reqs[r].pc = "adminOnly"
    /\ LET u == findById(users, reqs[r].userId)
       IN  reqs' = IF u = 0 \/ ~users[u].isAdmin
                   THEN [reqs EXCEPT ![r].status = 403, ![r].pc = "done"]
                   ELSE IF reqs[r].kind = "promote" /\ ~isBoolean(reqs[r].makeAdmin)
                        THEN [reqs EXCEPT ![r].user = TRUE, ![r].status = 400,
                                          ![r].pc = "done"]
                        ELSE [reqs EXCEPT ![r].user = TRUE,
                                          ![r].pc = IF reqs[r].kind = "promote"
                                                    THEN "findById" ELSE "findOne"]
    /\ UNCHANGED storeVars
    /\ AdminFrame

\* targetUser = await User.findById(userId); 404; the guard against
\* self-demotion; targetUser.isAdmin = makeAdmin
PromoteFindById(r) ==
    /\ reqs[r].kind = "promote"
    /\ reqs[r].pc = "findById"
    /\ LET t == findById(users, reqs[r].target)
       IN  reqs' = IF t = 0
                   THEN [reqs EXCEPT ![r].status = 404, ![r].pc = "done"]
                   ELSE IF ~jsTruthy(reqs[r].makeAdmin) /\ reqs[r].target = reqs[r].userId
                        THEN [reqs EXCEPT ![r].status = 400, ![r].pc = "done"]
                        ELSE [reqs EXCEPT ![r].found = users[t].isAdmin, ![r].pc = "save"]
    /\ UNCHANGED storeVars
    /\ AdminFrame

\* await targetUser.save(): the document writes isAdmin when the assignment
\* changed what had been loaded
PromoteSave(r) ==
    /\ reqs[r].kind = "promote"
    /\ reqs[r].pc = "save"
    /\ users' = IF castBoolean(reqs[r].makeAdmin) # reqs[r].found
                THEN [users EXCEPT ![reqs[r].target].isAdmin = castBoolean(reqs[r].makeAdmin)]
                ELSE users
    /\ reqs' = [reqs EXCEPT ![r].pc = "audit"]
    /\ UNCHANGED <<invites, tokens, auditLogs>>
    /\ AdminFrame

\* await AuditLog.record(makeAdmin ? 'PROMOTE' : 'DEMOTE', ...); res.json
PromoteAudit(r) ==
    /\ reqs[r].kind = "promote"
    /\ reqs[r].pc = "audit"
    /\ auditLogs' = Append(auditLogs,
                       [action |-> IF jsTruthy(reqs[r].makeAdmin) THEN "PROMOTE" ELSE "DEMOTE",
                        actorUserId |-> reqs[r].userId,
                        targetUserId |-> reqs[r].target])
    /\ reqs' = [reqs EXCEPT ![r].status = 200, ![r].pc = "done"]
    /\ UNCHANGED <<users, invites, tokens>>
    /\ AdminFrame

\* existingInvite = await AdminInvite.findOne({ email, usedAt: null });
\* 409 when it is still valid; new AdminInvite({ ..., expiresAt })
InviteFindOne(r) ==
    /\ reqs[r].kind = "invite"
    /\ reqs[r].pc = "findOne"
    /\ \E i \in pendingInviteFindOne(invites, reqs[r].email) :
          reqs' = IF i # 0 /\ isValid(invites[i], now)
                  THEN [reqs EXCEPT ![r].status = 409, ![r].pc = "done"]
                  ELSE [reqs EXCEPT ![r].expiresAt = now + DefaultInviteHours,
                                    ![r].pc = "save"]
    /\ UNCHANGED storeVars
    /\ AdminFrame

\* await invite.save(): the token is the schema's random default
InviteSave(r) ==
    /\ reqs[r].kind = "invite"
    /\ reqs[r].pc = "save"
    /\ invites' = Append(invites,
                     [token |-> "t" \o ToString(Len(invites) + 1),
                      email |-> reqs[r].email, expiresAt |-> reqs[r].expiresAt,
                      usedAt |-> Null, invitedByUserId |-> reqs[r].userId])
    /\ reqs' = [reqs EXCEPT ![r].pc = "audit"]
    /\ UNCHANGED <<users, tokens, auditLogs>>
    /\ AdminFrame

\* await AuditLog.record('INVITE_CREATED', ...); 201
InviteAudit(r) ==
    /\ reqs[r].kind = "invite"
    /\ reqs[r].pc = "audit"
    /\ auditLogs' = Append(auditLogs, [action |-> "INVITE_CREATED",
                                       actorUserId |-> reqs[r].userId,
                                       targetUserId |-> 0])
    /\ reqs' = [reqs EXCEPT ![r].status = 201, ![r].pc = "done"]
    /\ UNCHANGED <<users, invites, tokens>>
    /\ AdminFrame

\* POST /api/auth/login with the right password arrives
ReceiveLogin ==
    /\ Cardinality({ r \in 1 .. Len(reqs) : reqs[r].kind = "login" }) < MaxLogins
    /\ \E b \in LoginBodies :
          reqs' = Append(reqs,
                     [kind |-> "login", userId |-> b.userId, isAdmin |-> FALSE,
                      target |-> 0, makeAdmin |-> JsonBoolean(FALSE), email |-> "",
                      adminLogin |-> b.adminLogin, pc |-> "findOne",
                      user |-> FALSE, found |-> FALSE, expiresAt |-> 0,
                      status |-> 0])
    /\ UNCHANGED storeVars
    /\ AdminFrame

\* const user = await User.findOne({ email })
LoginFindOne(r) ==
    /\ reqs[r].kind = "login"
    /\ reqs[r].pc = "findOne"
    /\ reqs' = [reqs EXCEPT ![r].found = users[reqs[r].userId].isAdmin,
                            ![r].pc = "respond"]
    /\ UNCHANGED storeVars
    /\ AdminFrame

\* the admin login gate with its audit entry and 403; else user.save(), the
\* audit entry of an admin login, setTokenCookie(res, user._id, user.isAdmin)
LoginRespond(r) ==
    /\ reqs[r].kind = "login"
    /\ reqs[r].pc = "respond"
    /\ IF reqs[r].adminLogin /\ ~reqs[r].found
       THEN /\ auditLogs' = Append(auditLogs, [action |-> "ADMIN_LOGIN_DENIED",
                                               actorUserId |-> reqs[r].userId,
                                               targetUserId |-> reqs[r].userId])
            /\ reqs' = [reqs EXCEPT ![r].status = 403, ![r].pc = "done"]
            /\ UNCHANGED tokens
       ELSE /\ auditLogs' = IF reqs[r].adminLogin
                            THEN Append(auditLogs, [action |-> "ADMIN_LOGIN",
                                                    actorUserId |-> reqs[r].userId,
                                                    targetUserId |-> reqs[r].userId])
                            ELSE auditLogs
            /\ tokens' = Append(tokens, setTokenCookie(reqs[r].userId, reqs[r].found))
            /\ reqs' = [reqs EXCEPT ![r].status = 200, ![r].pc = "done"]
    /\ UNCHANGED <<users, invites>>
    /\ AdminFrame

NextAdmin ==
    \/ ReceivePromote
    \/ ReceiveInvite
    \/ ReceiveLogin
    \/ \E r \in 1 .. Len(reqs) : adminOnly(r)
    \/ \E r \in 1 .. Len(reqs) : PromoteFindById(r)
    \/ \E r \in 1 .. Len(reqs) : PromoteSave(r)
    \/ \E r \in 1 .. Len(reqs) : PromoteAudit(r)
    \/ \E r \in 1 .. Len(reqs) : InviteFindOne(r)
    \/ \E r \in 1 .. Len(reqs) : InviteSave(r)
    \/ \E r \in 1 .. Len(reqs) : InviteAudit(r)
    \/ \E r \in 1 .. Len(reqs) : LoginFindOne(r)
    \/ \E r \in 1 .. Len(reqs) : LoginRespond(r)

SpecAdmin == InitAdmin /\ [][NextAdmin]_vars

(***************************************************************************)
(* Specification of the computation of GET /api/sessions/today/summary:    *)
(* the bounds of the day, the query for the sessions that overlap it, and  *)
(* the total over what the query returned.                                 *)
(***************************************************************************)
\* the sessions of one user around the night of 31 October: started on the
\* eve or at a half hour from 03:00Z to 05:00Z, ended after 30 minutes or
\* 2 hours or still active
SummarySessions ==
    { [startAt |-> s, endAt |-> IF m = 0 THEN Null ELSE s + m] :
        s \in { (AutumnDay - 1) * MinutesPerDay + 18 * 60 }
              \cup { AutumnDay * MinutesPerDay + 30 * k : k \in 6 .. 10 },
        m \in {0, 30, 120} }

\* the zones a stored user has; an invalid zone makes the query throw
SummaryZones == Zones \ {"Not/AZone"}

\* Session.find({ userId, startAt: { $lt: dayEnd }, $or: [...] }).sort(...)
\* over the sessions of the user
sessionsOverlapping(ss, dayStart, dayEnd) ==
    LET matches(s) == overlapsDay(s, dayStart, dayEnd)
    IN sortByStartAt(SelectSeq(ss, matches))

InitSummary ==
    /\ timezone \in SummaryZones
    /\ sessions \in SeqsUpTo(SummarySessions, MaxSessions)
    /\ now \in { AutumnDay * MinutesPerDay + 60 * h : h \in {8, 30} }
    /\ session = [startAt |-> 0, endAt |-> Null]
    /\ date = ""
    /\ dates = <<>>
    /\ LoopAtRest
    /\ HelpersAtRest
    /\ RoutesAtRest
    /\ called = "none"
    /\ result = [dayStart |-> NaN, dayEnd |-> NaN, totalMs |-> 0]
    /\ thrown = ""

\* const { dayStart, dayEnd } = getDayBounds(date, tz); sessions = await
\* Session.find(...); totalMs = computeDayTotal(sessions, date, tz)
CallDaySummary ==
    /\ called = "none"
    /\ \E d \in TargetDates :
          LET bounds == getDayBounds(d, timezone, now)
              found == sessionsOverlapping(sessions, bounds.dayStart, bounds.dayEnd)
          IN /\ date' = d
             /\ result' = [dayStart |-> bounds.dayStart, dayEnd |-> bounds.dayEnd,
                           totalMs |-> computeDayTotal(found, d, timezone, now)]
    /\ called' = "daySummary"
    /\ thrown' = ""
    /\ UNCHANGED <<timezone, now, session, sessions, dates, loopVars>>
    /\ UNCHANGED <<helperVars, routeVars>>

NextSummary == CallDaySummary

SpecSummary == InitSummary /\ [][NextSummary]_vars

(***************************************************************************)
(* Specification of splitSessionByDay run one iteration at a time.         *)
(***************************************************************************)
\* const start, end; if (end <= start) return []; let cursor = start
EnterSplit ==
    /\ called = "none"
    /\ LET start == fromJSDate(session.startAt, timezone)
           end == sessionEnd(session, timezone, now)
       IN IF Le(end, start)
          THEN /\ called' = "returned"
               /\ UNCHANGED loopVars
          ELSE /\ called' = "while"
               /\ loopCursor' = start
               /\ loopCount' = 0
    /\ result' = <<>>
    /\ thrown' = ""
    /\ UNCHANGED <<timezone, now, session, sessions, date, dates>>
    /\ UNCHANGED <<helperVars, routeVars>>

\* one run of the body of while (cursor < end)
LoopBody ==
    /\ called = "while"
    /\ LET end == sessionEnd(session, timezone, now)
           nextMidnight == startOfDay(plusDays(loopCursor, 1))
           segmentEnd == IF Lt(nextMidnight, end) THEN nextMidnight ELSE end
           durationMs == diffMs(segmentEnd, loopCursor)
       IN /\ Lt(loopCursor, end)
          /\ result' = IF durationMs > 0
                       THEN Append(result, [date |-> toFormat(loopCursor),
                                            durationMs |-> durationMs])
                       ELSE result
          /\ loopCursor' = nextMidnight
    /\ loopCount' = loopCount + 1
    /\ UNCHANGED <<timezone, now, session, sessions, date, dates>>
    /\ UNCHANGED <<helperVars, routeVars, called, thrown>>

\* cursor < end is false: return result
LeaveLoop ==
    /\ called = "while"
    /\ ~Lt(loopCursor, sessionEnd(session, timezone, now))
    /\ called' = "returned"
    /\ UNCHANGED <<engineVars, helperVars, routeVars, result, thrown>>

NextLoop == EnterSplit \/ LoopBody \/ LeaveLoop

SpecLoop == Init /\ [][NextLoop]_vars

(***************************************************************************)
(* Specification of the progress computations of the client, next to the   *)
(* server's.                                                               *)
(***************************************************************************)
\* client/src/utils/progress.js: computeProgressPercent
clientComputeProgressPercent(worked, goal) ==
    IF goal.num <= 0 THEN Frac(100, 1)
    ELSE LET goalMs == fracTimes(goal, MsPerHour)
         IN mathMin(Frac(100, 1), fracTimes(fracOver(worked, goalMs), 100))

\* the bar of a day without a goal stays empty
ProgressBarPercent_emptyForNoGoal(worked, goal) ==
    LET goalMs == fracTimes(goal, MsPerHour)
    IN IF goalMs.num > 0
       THEN mathMin(Frac(100, 1), fracTimes(fracOver(worked, goalMs), 100))
       ELSE Frac(0, 1)

\* ProgressBar.jsx: const goalMs = goalHours * 3600000;
\* const percent = goalMs > 0 ? Math.min(100, (workedMs / goalMs) * 100) : 100
ProgressBarPercent(worked, goal) ==
    LET goalMs == fracTimes(goal, MsPerHour)
    IN IF goalMs.num > 0
       THEN mathMin(Frac(100, 1), fracTimes(fracOver(worked, goalMs), 100))
       ELSE Frac(100, 1)

\* the same worked time and goal go through the three computations
CallProgressBar ==
    /\ called = "none"
    /\ \E w \in WorkedTimes, g \in GoalHours :
          /\ workedMs' = w
          /\ goalHours' = g
          /\ result' = [server |-> computeProgressPercent(w, g),
                        client |-> clientComputeProgressPercent(w, g),
                        percent |-> ProgressBarPercent(w, g)]
    /\ called' = "ProgressBar"
    /\ thrown' = ""
    /\ UNCHANGED <<engineVars, ms, routeVars>>

NextClient == CallProgressBar

SpecClient == InitHelpers /\ [][NextClient]_vars

(***************************************************************************)
(* What the claims speak of.                                               *)
(***************************************************************************)
\* the instant the session handed to splitSessionByDay ends at
EffectiveEnd == IF session.endAt = Null THEN now ELSE session.endAt

\* the local calendar day (as a day of 2026) that instant t falls on
LocalDay(t, tz) == (t + offset(tz, t)) \div MinutesPerDay

\* the 'YYYY-MM-DD' name of day n of 2026
DateOfDay(n) ==
    LET md == monthOfDay(2026, 1, n)
    IN formatDate([year |-> 2026, month |-> md.month, day |-> md.day])

RECURSIVE SumDurations(_)
SumDurations(segs) ==
    IF segs = <<>> THEN 0 ELSE Head(segs).durationMs + SumDurations(Tail(segs))

SplitReturned == called = "splitSessionByDay"

\* C1: the durations of the segments of a split add up to effectiveEnd -
\* startAt when effectiveEnd > startAt, and to 0 otherwise, in every timezone.
C1_DurationPreserving ==
    (SplitReturned /\ isValidZone(timezone)) =>
        SumDurations(result) =
            IF EffectiveEnd > session.startAt
            THEN (EffectiveEnd - session.startAt) * MsPerMinute
            ELSE 0

C1_Witness ==
    /\ SplitReturned
    /\ timezone = "America/New_York"
    /\ session.endAt # Null
    /\ Len(result) = 3
    /\ SumDurations(result) = 47 * 60 * MsPerMinute

\* C2: the segments of one split are in chronological order, and each one's
\* date is the calendar day right after the date of the segment before it.
C2_ConsecutiveDates ==
    (SplitReturned /\ result # <<>>) =>
        \E first \in LocalDay(session.startAt, timezone)
                        .. LocalDay(EffectiveEnd, timezone) :
            \A i \in 1 .. Len(result) : result[i].date = DateOfDay(first + i - 1)

C2_Witness ==
    /\ SplitReturned
    /\ Len(result) = 3
    /\ result[1].date = "2026-10-31"
    /\ result[2].date = "2026-11-01"
    /\ result[3].date = "2026-11-02"

\* C5: a session whose effectiveEnd is at or before its startAt splits into
\* the empty sequence, and no error is raised.
C5_EmptyWhenNotPositive ==
    (SplitReturned /\ EffectiveEnd <= session.startAt) =>
        (result = <<>> /\ thrown = "")

C5_Witness ==
    /\ SplitReturned
    /\ isValidZone(timezone)
    /\ session.endAt # Null
    /\ session.endAt < session.startAt
    /\ result = <<>>

\* C6: an active session (endAt = null) evaluated at instant now splits into
\* the same segments as the ended session with the same startAt and endAt =
\* now, whenever that one is evaluated.
C6_OpenEqualsClosedAtNow ==
    (SplitReturned /\ session.endAt = Null) =>
        \A later \in {now, now + NowLag} :
            result = splitSessionByDay([session EXCEPT !.endAt = now],
                                       timezone, later)

C6_Witness ==
    /\ SplitReturned
    /\ session.endAt = Null
    /\ isValidZone(timezone)
    /\ Len(result) = 2

\* the instants of [startAt, effectiveEnd) half an hour apart; offsets change
\* and local days begin on half hours only, and every session starts on one
SampleTimes ==
    { session.startAt + 30 * k :
        k \in 0 .. ((EffectiveEnd - session.startAt) \div 30) - 1 }

\* the local calendar days [startAt, effectiveEnd) touches
DaysTouched == { LocalDay(t, timezone) : t \in SampleTimes }

\* the first instant of the session that falls on local day d
FirstInstantOn(d) ==
    CHOOSE t \in SampleTimes :
        /\ LocalDay(t, timezone) = d
        /\ \A u \in SampleTimes : LocalDay(u, timezone) = d => t <= u

\* C3: a session with effectiveEnd > startAt splits into one segment per local
\* calendar day that [startAt, effectiveEnd) touches; within one local day
\* that is {date, effectiveEnd - startAt}, and across one local midnight M it
\* is {start date, M - startAt} and then {next date, effectiveEnd - M}.
C3_OneSegmentPerDayTouched ==
    (SplitReturned /\ isValidZone(timezone) /\ EffectiveEnd > session.startAt) =>
        LET first == LocalDay(session.startAt, timezone)
            n == Cardinality(DaysTouched)
            M == FirstInstantOn(first + 1)
        IN /\ Len(result) = n
           /\ \A i \in 1 .. Len(result) : result[i].date = DateOfDay(first + i - 1)
           /\ n = 1 => result[1].durationMs =
                          (EffectiveEnd - session.startAt) * MsPerMinute
           /\ n = 2 => /\ result[1].durationMs = (M - session.startAt) * MsPerMinute
                       /\ result[2].durationMs = (EffectiveEnd - M) * MsPerMinute

\* the instant local day d begins in tz: the first instant that falls on it
\* (offsets lie within 14 hours of UTC)
TrueDayStart(d, tz) ==
    CHOOSE t \in { d * MinutesPerDay + 30 * j : j \in -28 .. 28 } :
        LocalDay(t, tz) = d /\ LocalDay(t - 30, tz) = d - 1

\* the real length of local day d in tz, in minutes
DayLength(d, tz) == TrueDayStart(d + 1, tz) - TrueDayStart(d, tz)

\* C4: in a split of three or more segments, every segment but the first and
\* the last lasts as long as its local day really does, from that day's local
\* midnight to the next: 24h, or 23h or 25h on the days the clocks change.
C4_MiddleSegmentsAreWholeDays ==
    (SplitReturned /\ Len(result) >= 3) =>
        \A i \in 2 .. Len(result) - 1 :
            \E d \in LocalDay(session.startAt, timezone)
                        .. LocalDay(EffectiveEnd, timezone) :
                /\ result[i].date = DateOfDay(d)
                /\ result[i].durationMs = DayLength(d, timezone) * MsPerMinute

\* C7: a call with an invalid IANA timezone identifier fails at once with an
\* 'invalid timezone' error; it never returns an empty segment list, a zero
\* total or bounds of some default zone.
C7_InvalidZoneFailsFast ==
    (called # "none" /\ ~isValidZone(timezone)) => thrown = "invalid timezone"

DayTotalReturned == called = "computeDayTotal"

\* the segments of a split that lie on date d
SegmentsOn(segs, d) == LET onDate(seg) == seg.date = d IN SelectSeq(segs, onDate)

RECURSIVE SumOverSessions(_, _)
\* the durations of the segments on date d of the split of every session of ss
SumOverSessions(ss, d) ==
    IF ss = <<>> THEN 0
    ELSE SumDurations(SegmentsOn(splitSessionByDay(Head(ss), timezone, now), d))
            + SumOverSessions(Tail(ss), d)

\* session s, evaluated now, has an instant that falls on local date d
Overlaps(s, d) ==
    LET end == IF s.endAt = Null THEN now ELSE s.endAt
    IN \E k \in 0 .. ((end - s.startAt) \div 30) - 1 :
          DateOfDay(LocalDay(s.startAt + 30 * k, timezone)) = d

\* C8: computeDayTotal is the sum, over every session given and every segment
\* of its split, of the durations of the segments on the target date: the
\* sessions' shares are added up, a session that does not overlap the date
\* adds nothing, and several active sessions are summed without an error.
C8_DayTotalIsSumOfSegments ==
    DayTotalReturned =>
        LET overlapping(s) == Overlaps(s, date)
        IN /\ result = SumOverSessions(sessions, date)
           /\ isValidZone(timezone) =>
                 result = SumOverSessions(SelectSeq(sessions, overlapping), date)
           /\ thrown = ""

C8_Witness ==
    /\ DayTotalReturned
    /\ Len(sessions) = 2
    /\ sessions[1].endAt = Null
    /\ sessions[2].endAt = Null
    /\ sessions[1] # sessions[2]
    /\ SumOverSessions(<<sessions[1]>>, date) > 0
    /\ SumOverSessions(<<sessions[2]>>, date) > 0
    /\ result = SumOverSessions(<<sessions[1]>>, date)
                    + SumOverSessions(<<sessions[2]>>, date)

RECURSIVE Reverse(_)
Reverse(q) == IF q = <<>> THEN <<>> ELSE Append(Reverse(Tail(q)), Head(q))

\* C9: computeDayTotal is additive: the totals of two collections of sessions
\* add up to the total of the one followed by the other, in either order.
C9_DayTotalAdditive ==
    DayTotalReturned =>
        /\ \A k \in 0 .. Len(sessions) :
              computeDayTotal(SubSeq(sessions, 1, k), date, timezone, now)
                + computeDayTotal(SubSeq(sessions, k + 1, Len(sessions)),
                                  date, timezone, now)
              = result
        /\ computeDayTotal(Reverse(sessions), date, timezone, now) = result

C9_Witness ==
    /\ DayTotalReturned
    /\ Len(sessions) = 2
    /\ sessions[1].endAt # Null
    /\ sessions[2].endAt # Null
    /\ sessions[1] # sessions[2]
    /\ computeDayTotal(<<sessions[1]>>, date, timezone, now) > 0
    /\ computeDayTotal(<<sessions[2]>>, date, timezone, now) > 0
    /\ result > computeDayTotal(<<sessions[1]>>, date, timezone, now)

RangeTotalReturned == called = "computeRangeTotal"

RECURSIVE SumOfDayTotals(_)
\* the sum of computeDayTotal over the dates of the set D
SumOfDayTotals(D) ==
    IF D = {} THEN 0
    ELSE LET d == CHOOSE x \in D : TRUE
         IN computeDayTotal(sessions, d, timezone, now) + SumOfDayTotals(D \ {d})

\* C10: computeRangeTotal counts every segment once, against its own date: it
\* is the sum of computeDayTotal over the distinct dates of the array, also
\* when the array lists a date more than once.
C10_RangeTotalCountsOnce ==
    RangeTotalReturned =>
        result = SumOfDayTotals({ dates[i] : i \in 1 .. Len(dates) })

C10_Witness ==
    /\ RangeTotalReturned
    /\ Len(dates) = 2
    /\ dates[1] = dates[2]
    /\ Len(sessions) = 2
    /\ result > 0
    /\ result = computeDayTotal(sessions, dates[1], timezone, now)

(***************************************************************************)
(* The boundary functions.                                                 *)
(***************************************************************************)
\* the day of 2026 that a 'YYYY-MM-DD' string names
DayNumber(text) == CHOOSE n \in 0 .. 364 : DateOfDay(n) = text

\* the half hours from instant a up to, not including, instant b
HalfHours(a, b) == { a + 30 * k : k \in 0 .. ((b - a) \div 30) - 1 }

DayBoundsReturned == called = "getDayBounds"

\* C11: getDayBounds(date, timezone) returns the instant the local day `date`
\* begins and the instant the next local day begins, dayStart < dayEnd; every
\* instant in [dayStart, dayEnd) falls on `date`, dayEnd is the dayStart of
\* the following date, and a session over exactly [dayStart, dayEnd) splits
\* into the single segment {date, dayEnd - dayStart}.
C11_DayBoundsAreLocalMidnights ==
    (DayBoundsReturned /\ isValidZone(timezone)) =>
        LET d == DayNumber(date)
            whole == [startAt |-> result.dayStart, endAt |-> result.dayEnd]
        IN /\ result.dayStart = TrueDayStart(d, timezone)
           /\ result.dayEnd = TrueDayStart(d + 1, timezone)
           /\ result.dayStart < result.dayEnd
           /\ \A t \in HalfHours(result.dayStart, result.dayEnd) :
                 LocalDay(t, timezone) = d
           /\ result.dayEnd = getDayBounds(DateOfDay(d + 1), timezone, now).dayStart
           /\ splitSessionByDay(whole, timezone, now) =
                 << [date |-> date,
                     durationMs |-> (result.dayEnd - result.dayStart) * MsPerMinute] >>

WeekBoundsReturned == called = "getWeekBounds"

\* the Monday of the week local day n lies in; 5 January 2026 is a Monday
MondayOf(n) == n - ((n - 4) % 7)

\* the elements of a sequence
Range(q) == { q[i] : i \in 1 .. Len(q) }

\* C12: getWeekBounds returns the instant the local Monday of the current
\* week begins and the instant the next local Monday begins, now lying
\* between them, and `dates` is the seven consecutive dates from that Monday
\* on, in ascending order, the current local date among them.
C12_WeekBoundsAreMondayToMonday ==
    (WeekBoundsReturned /\ isValidZone(timezone)) =>
        LET monday == MondayOf(LocalDay(now, timezone))
        IN /\ result.rangeStart = TrueDayStart(monday, timezone)
           /\ result.rangeEnd = TrueDayStart(monday + 7, timezone)
           /\ result.rangeStart <= now
           /\ now < result.rangeEnd
           /\ Len(result.dates) = 7
           /\ \A i \in 1 .. Len(result.dates) :
                 result.dates[i] = DateOfDay(monday + i - 1)
           /\ DateOfDay(LocalDay(now, timezone)) \in Range(result.dates)

\* a week that holds the night the clocks go back at local midnight, asked
\* for during the repeated hour
C12_Witness ==
    /\ WeekBoundsReturned
    /\ timezone = "America/Havana"
    /\ now = AutumnDay * MinutesPerDay + 5 * 60 + 30
    /\ Len(result.dates) = 7
    /\ result.dates[7] = "2026-11-01"
    /\ result.rangeEnd - result.rangeStart = 7 * MinutesPerDay + 60

MonthBoundsReturned == called = "getMonthBounds"

\* C13: getMonthBounds returns the instant the first local day of the current
\* month begins and the instant the first local day of the next month begins,
\* and `dates` lists every date of the month once, in ascending order: 28 to
\* 31 entries, the first being day 01.
C13_MonthBoundsAreFirstToFirst ==
    (MonthBoundsReturned /\ isValidZone(timezone)) =>
        LET today == LocalDay(now, timezone)
            md == monthOfDay(2026, 1, today)
            first == today - (md.day - 1)
            length == daysInMonth(2026, md.month)
        IN /\ result.rangeStart = TrueDayStart(first, timezone)
           /\ result.rangeEnd = TrueDayStart(first + length, timezone)
           /\ Len(result.dates) = length
           /\ Len(result.dates) \in 28 .. 31
           /\ \A i \in 1 .. Len(result.dates) :
                 result.dates[i] = DateOfDay(first + i - 1)
           /\ SubSeq(result.dates[1], 9, 10) = "01"

\* getDayBounds returns the same for the same date and timezone under every
\* reading of the clock
DayBoundsIgnoreClock ==
    DayBoundsReturned => \A c \in Clocks : getDayBounds(date, timezone, c) = result

\* C14: the day, week and month boundary functions have no hidden dependency
\* on the wall clock: called again with the same arguments under any other
\* reading of the clock, each returns what it returned before.
C14_NoHiddenClock ==
    /\ DayBoundsIgnoreClock
    /\ WeekBoundsReturned =>
          \A c \in Clocks : getWeekBounds(timezone, c) = result
    /\ MonthBoundsReturned =>
          \A c \in Clocks : getMonthBounds(timezone, c) = result

(***************************************************************************)
(* computeProgressPercent and formatDuration.                              *)
(***************************************************************************)
ProgressReturned == called = "computeProgressPercent"

\* C15: for workedMs >= 0 and goalHours > 0 computeProgressPercent is a value
\* in [0, 100], and no smaller worked time has a greater progress for the
\* same goal.
C15_ProgressBoundedAndMonotonic ==
    (ProgressReturned /\ workedMs >= 0 /\ goalHours.num > 0) =>
        /\ fracLe(Frac(0, 1), result)
        /\ result.num >= 0
        /\ fracLe(result, Frac(100, 1))
        /\ \A w \in WorkedTimes :
              w <= workedMs =>
                  fracLe(computeProgressPercent(w, goalHours), result)

\* progress strictly between that of less work and the cap
C15_Witness ==
    /\ ProgressReturned
    /\ goalHours = [num |-> 8, den |-> 1]
    /\ workedMs = 6 * MsPerHour
    /\ result = Frac(75, 1)
    /\ computeProgressPercent(5 * MsPerHour, goalHours) = Frac(125, 2)

\* C16: computeProgressPercent is exactly 100 when goalHours <= 0, exactly 100
\* when workedMs >= goalHours * 3600000 with goalHours > 0, and otherwise
\* workedMs / (goalHours * 3600000) * 100: 0 for no work, 50 for half the
\* goal, goals that are not whole included.
C16_ProgressValue ==
    ProgressReturned =>
        /\ goalHours.num <= 0 => result = Frac(100, 1)
        /\ (goalHours.num > 0 /\ workedMs * goalHours.den >= goalHours.num * MsPerHour)
              => result = Frac(100, 1)
        /\ (goalHours.num > 0 /\ workedMs * goalHours.den < goalHours.num * MsPerHour)
              => result = Frac((workedMs \div gcd(workedMs, 36000)) * goalHours.den,
                               (36000 \div gcd(workedMs, 36000)) * goalHours.num)
        /\ (goalHours.num > 0 /\ workedMs = 0) => result = Frac(0, 1)
        /\ (goalHours.num > 0 /\ 2 * workedMs * goalHours.den = goalHours.num * MsPerHour)
              => result = Frac(50, 1)

\* half of a goal of an hour and a half
C16_Witness ==
    /\ ProgressReturned
    /\ goalHours = [num |-> 3, den |-> 2]
    /\ workedMs = 45 * MsPerMinute
    /\ result = Frac(50, 1)

FormatReturned == called = "formatDuration"

\* where the colon of an 'HH:MM' string stands
ColonAt(text) == CHOOSE i \in 1 .. Len(text) : SubSeq(text, i, i) = ":"

\* the hours and the minutes an 'HH:MM' string reads as
HoursText(text) == SubSeq(text, 1, ColonAt(text) - 1)
MinutesText(text) == SubSeq(text, ColonAt(text) + 1, Len(text))

\* an 'HH:MM' string parsed back into minutes
ParseDuration(text) == parseDigits(HoursText(text)) * 60 + parseDigits(MinutesText(text))

\* C17: for ms >= 0 formatDuration(ms) is hours:minutes with hours =
\* floor(floor(ms / 60000) / 60) and minutes = floor(ms / 60000) mod 60, in
\* 0..59; both fields are padded with zeros to two digits and the hours are
\* never cut (360900000 ms is 100:15).
C17_FormatIsHoursAndMinutes ==
    (FormatReturned /\ ms >= 0) =>
        /\ parseDigits(HoursText(result)) = (ms \div 60000) \div 60
        /\ parseDigits(MinutesText(result)) = (ms \div 60000) % 60
        /\ parseDigits(MinutesText(result)) \in 0 .. 59
        /\ Len(MinutesText(result)) = 2
        /\ Len(HoursText(result)) >= 2
        /\ Len(HoursText(result)) > 2 => SubSeq(result, 1, 1) # "0"
        /\ ms = 0 => result = "00:00"
        /\ ms = 5400000 => result = "01:30"
        /\ ms = 360900000 => result = "100:15"

\* a duration of a hundred hours and more
C17_Witness ==
    /\ FormatReturned
    /\ ms = 360900000
    /\ result = "100:15"

\* C18: for ms >= 0, formatDuration(ms) parsed back into minutes, m = hours *
\* 60 + minutes, is floor(ms / 60000), and formatDuration(m * 60000) is the
\* same string.
C18_FormatRoundTrips ==
    (FormatReturned /\ ms >= 0) =>
        /\ ParseDuration(result) = ms \div 60000
        /\ formatDuration(ParseDuration(result) * 60000) = result

\* a duration that is not a whole number of minutes
C18_Witness ==
    /\ FormatReturned
    /\ ms = 90 * MsPerMinute + (MsPerMinute - 1)
    /\ result = "01:30"
    /\ ParseDuration(result) * MsPerMinute < ms

(***************************************************************************)
(* POST /sessions/start and PATCH /sessions/end.  What a request finds is  *)
(* what the store holds when its findOne is answered.                      *)
(***************************************************************************)
\* C19: a POST /sessions/start whose user has a session with endAt = null is
\* answered 400 and no step of it creates or changes a session; one whose user
\* has no open session creates exactly one new session, with endAt = null, and
\* is answered 201.
C19_StartRejectsOrCreatesOne ==
    [][ \A r \in 1 .. Len(reqs) :
          (reqs[r].kind = "start" /\ reqs'[r] # reqs[r]) =>
             /\ reqs[r].pc = "findOne" =>
                   /\ (reqs'[r].found # 0) <=> (openSessions(docs, reqs[r].userId) # {})
                   /\ docs' = docs
             /\ reqs'[r].found # 0 =>
                   /\ docs' = docs
                   /\ reqs[r].pc = "checked" => reqs'[r].pc = "done"
                   /\ reqs'[r].pc = "done" => reqs'[r].status = 400
             /\ (reqs'[r].found = 0 /\ reqs[r].pc # "findOne") =>
                   IF reqs'[r].pc = "done"
                   THEN /\ reqs'[r].status = 201
                        /\ docs' = Append(docs, [userId |-> reqs[r].userId,
                                                 startAt |-> reqs[r].at,
                                                 endAt |-> Null])
                   ELSE docs' = docs /\ reqs'[r].status = 0
      ]_vars

\* a user's first start was answered 201 and the second 400, and the one
\* session created is still open
C19_Witness ==
    \E a, b \in 1 .. Len(reqs) :
        /\ reqs[a].kind = "start" /\ reqs[a].status = 201
        /\ reqs[b].kind = "start" /\ reqs[b].status = 400
        /\ reqs[a].userId = reqs[b].userId
        /\ Len(docs) = 1
        /\ docs[reqs[b].found].endAt = Null

\* C20: a PATCH /sessions/end whose user has an open session sets the endAt of
\* that session to the time at which the handler read the clock and changes
\* no other session, and a user whose only open session it was has none
\* afterwards; one whose user has no open session is answered 400 and no step
\* of it changes anything.
C20_EndClosesOnlyTheOpenSession ==
    [][ \A r \in 1 .. Len(reqs) :
          (reqs[r].kind = "end" /\ reqs'[r] # reqs[r]) =>
             /\ reqs[r].pc = "findOne" =>
                   /\ (reqs'[r].found # 0) <=> (openSessions(docs, reqs[r].userId) # {})
                   /\ reqs'[r].found # 0 =>
                         reqs'[r].found \in openSessions(docs, reqs[r].userId)
                   /\ docs' = docs
             /\ reqs'[r].found = 0 =>
                   /\ docs' = docs
                   /\ reqs[r].pc = "checked" => reqs'[r].pc = "done"
                   /\ reqs'[r].pc = "done" => reqs'[r].status = 400
             /\ (reqs[r].found # 0 /\ reqs[r].pc = "checked") =>
                   /\ reqs'[r].at = now
                   /\ docs' = docs
             /\ reqs[r].pc = "save" =>
                   /\ reqs'[r].status = 200
                   /\ Len(docs') = Len(docs)
                   /\ docs'[reqs[r].found].endAt = reqs[r].at
                   /\ docs'[reqs[r].found].endAt # Null
                   /\ docs[reqs[r].found].userId = reqs[r].userId
                   /\ \A i \in 1 .. Len(docs) :
                         /\ i # reqs[r].found => docs'[i] = docs[i]
                         /\ docs'[i].userId = docs[i].userId
                         /\ docs'[i].startAt = docs[i].startAt
                   /\ openSessions(docs, reqs[r].userId) = {reqs[r].found} =>
                         openSessions(docs', reqs[r].userId) = {}
      ]_vars

\* a session started at 0 was ended at 1, and the same user's next end was
\* answered 400
C20_Witness ==
    \E a, b \in 1 .. Len(reqs) :
        /\ reqs[a].kind = "end" /\ reqs[a].status = 200
        /\ reqs[b].kind = "end" /\ reqs[b].status = 400
        /\ reqs[a].userId = reqs[b].userId
        /\ a < b
        /\ docs = << [userId |-> reqs[a].userId, startAt |-> 0, endAt |-> 1] >>

(***************************************************************************)
(* The goals.                                                              *)
(***************************************************************************)
\* the dates a goal is resolved for: those asked about and the eve, which is
\* today in America/New_York
ResolvedDates == GoalDates \cup {"2026-10-31"}

\* the goal resolved for user u and date d from collection gs
Resolved(gs, u, d) ==
    IF \E i \in 1 .. Len(gs) : gs[i].userId = u /\ gs[i].date = d
    THEN [goalHours |-> gs[CHOOSE i \in 1 .. Len(gs) :
                               gs[i].userId = u /\ gs[i].date = d].goalHours,
          isDefault |-> FALSE]
    ELSE [goalHours |-> users[u].defaultDailyGoal, isDefault |-> TRUE]

\* the step is a PUT that was answered 200
PutAccepted == result'.puts # result.puts /\ result'.status = 200

\* C21: the goal resolved for a (user, date), by GET /goals and by the day
\* summary, is the user's defaultDailyGoal with isDefault = true as long as no
\* PUT was made, and after an accepted PUT for that (user, date) its value
\* with isDefault = false; a PUT changes the goal resolved for no other date
\* and no other user, and nothing else changes any.
C21_GoalIsLastPut ==
    /\ [](result.puts = 0 =>
            \A u \in 1 .. Len(users), d \in ResolvedDates :
                Resolved(goals, u, d) =
                    [goalHours |-> users[u].defaultDailyGoal, isDefault |-> TRUE])
    /\ [][ /\ \A u \in 1 .. Len(users), d \in ResolvedDates :
                IF PutAccepted /\ u = result'.userId /\ d = result'.date
                THEN Resolved(goals', u, d) =
                        [goalHours |-> result'.goalHours, isDefault |-> FALSE]
                ELSE Resolved(goals', u, d) = Resolved(goals, u, d)
           /\ \A u \in 1 .. Len(users), d \in ResolvedDates :
                Cardinality({ i \in 1 .. Len(goals') :
                                goals'[i].userId = u /\ goals'[i].date = d }) <= 1
           /\ \A r \in 1 .. Len(reqs) :
                (reqs[r].pc = "findOne" /\ reqs'[r].pc = "done") =>
                    /\ reqs[r].date \in ResolvedDates
                    /\ [goalHours |-> reqs'[r].goalHours,
                        isDefault |-> reqs'[r].isDefault] =
                           Resolved(goals, reqs[r].userId, reqs[r].date)
         ]_vars

\* the day summary resolved the goal put last, while the other user's goal
\* for the same date stands
C21_Witness ==
    /\ result = [status |-> 200, userId |-> 1, date |-> "2026-11-01",
                 goalHours |-> Frac(1, 2), puts |-> 2]
    /\ Len(goals) = 2
    /\ goals[1] = [userId |-> 2, date |-> "2026-11-01", goalHours |-> Frac(6, 1)]
    /\ Len(reqs) = 1
    /\ reqs[1].kind = "summary"
    /\ reqs[1].userId = 1
    /\ reqs[1].pc = "done"
    /\ reqs[1].goalHours = Frac(1, 2)
    /\ ~reqs[1].isDefault

(***************************************************************************)
(* Registration and invite tokens.                                         *)
(***************************************************************************)
\* the request carries, as a string, the token of an invite that is unused,
\* unexpired at the given clock and made out to the registering email
CarriesValidToken(q, clock) ==
    /\ q.inviteToken.kind = "string"
    /\ \E i \in 1 .. Len(invites) :
          /\ invites[i].token = q.inviteToken.value
          /\ isValid(invites[i], clock)
          /\ invites[i].email = q.email

Registrations == { r \in 1 .. Len(reqs) : reqs[r].kind = "register" }

\* the request presents an invite token, a non-empty string
PresentsToken(q) == q.inviteToken.kind = "string" /\ q.inviteToken.value # ""

\* C22: POST /auth/register creates a user with isAdmin = true only when the
\* request carries an invite token that exists, is unused, is unexpired and
\* whose email equals the registering email; an isAdmin field of the body
\* never grants admin, a registration without a token creates a non-admin, and
\* a registration with an unknown, expired, used or email-mismatched token is
\* answered 400 and creates no user.
C22_AdminOnlyByValidInvite ==
    [][ \A r \in Registrations :
           \* admin is granted only on a valid token
           /\ (~reqs[r].grantAdmin /\ reqs'[r].grantAdmin)
                 => CarriesValidToken(reqs[r], now)
           \* the user created is admin exactly when admin was granted
           /\ (reqs[r].user = 0 /\ reqs'[r].user # 0)
                 => /\ users'[reqs'[r].user].isAdmin = reqs[r].grantAdmin
                    /\ ~isTruthy(reqs[r].inviteToken)
                          => ~users'[reqs'[r].user].isAdmin
           \* a token that is not valid is answered 400 and creates no user
           /\ ( /\ reqs[r].pc \in {"findUser", "checkInvite"}
                /\ reqs'[r].pc = "done"
                /\ isTruthy(reqs[r].inviteToken)
                /\ ~CarriesValidToken(reqs[r], now) )
                 => reqs'[r].status = 400 /\ reqs'[r].user = 0
      ]_vars

GrantedBy(i) ==
    { r \in Registrations :
         reqs[r].invite = i /\ reqs[r].user # 0 /\ users[reqs[r].user].isAdmin }

AdminRequests == { r \in 1 .. Len(reqs) : reqs[r].kind \in AdminKinds }

\* C24: every request to an /api/admin route made by a user whose isAdmin is
\* false in the database when adminOnly's check runs is answered 403 and has
\* no effect, also when the cookie was issued while the user was an admin.
C24_NonAdminIsRejected ==
    [][ \A r \in AdminRequests :
           \* the check turns a non-admin away, and changes nothing
           /\ ( /\ reqs[r].pc = "adminOnly"
                /\ reqs'[r] # reqs[r]
                /\ ~users[reqs[r].userId].isAdmin )
                 => /\ reqs'[r].status = 403
                    /\ reqs'[r].pc = "done"
                    /\ UNCHANGED storeVars
           \* a request answered 403 takes no further step
           /\ reqs[r].status = 403 => reqs'[r] = reqs[r]
           \* what a request changes, it changes after the check let it pass
           /\ (reqs'[r] # reqs[r] /\ storeVars' # storeVars)
                 => reqs[r].user /\ reqs[r].status = 0
      ]_vars

\* an admin is demoted and then calls an admin route with the cookie issued
\* before: the claim of the cookie passes, the query turns the request away
C24_Witness ==
    \E r \in AdminRequests :
       /\ reqs[r].isAdmin
       /\ reqs[r].status = 403
       /\ ~users[reqs[r].userId].isAdmin
       /\ \E a \in 1 .. Len(auditLogs) :
             auditLogs[a].action = "DEMOTE" /\ auditLogs[a].targetUserId = reqs[r].userId

\* C26: starting from a state with an admin, some user is admin in every
\* reachable state, whatever POST /admin/promote requests are made and however
\* they interleave; a request in which the actor demotes themself is answered
\* 400 and changes nothing.
C26_AnAdminRemains ==
    /\ [](\E u \in 1 .. Len(users) : users[u].isAdmin)
    /\ [][ \A r \in AdminRequests :
              ( /\ reqs[r].kind = "promote"
                /\ reqs[r].pc = "findById"
                /\ reqs'[r] # reqs[r]
                /\ reqs[r].target = reqs[r].userId
                /\ ~castBoolean(reqs[r].makeAdmin) )
                 => /\ reqs'[r].status = 400
                    /\ UNCHANGED storeVars
       ]_vars

\* C25: at most one session of each user has endAt = null in every reachable
\* state, also when two POST /sessions/start of the same user interleave
\* between the check for an active session and the save of the new one.
C25_AtMostOneOpenSession ==
    \A u \in Users : Cardinality(openSessions(docs, u)) <= 1

(***************************************************************************)
(* The day summary's query.                                                *)
(***************************************************************************)
\* C27: every session that does not satisfy startAt < dayEnd and (endAt >=
\* dayStart or endAt is null), with the bounds of getDayBounds(date,
\* timezone), contributes 0 to computeDayTotal for that date, so the total
\* over the sessions the query returns equals the total over all sessions.
C27_FilterIsComplete ==
    called = "daySummary" =>
       /\ \A i \in 1 .. Len(sessions) :
             ~overlapsDay(sessions[i], result.dayStart, result.dayEnd)
                => computeDayTotal(<<sessions[i]>>, date, timezone, now) = 0
       /\ result.totalMs = computeDayTotal(sessions, date, timezone, now)

(***************************************************************************)
(* The loop of splitSessionByDay.                                          *)
(***************************************************************************)
\* C28: at each iteration of the loop of splitSessionByDay the next local
\* midnight is strictly after the cursor, and when the loop has ended it has
\* run exactly once for every local calendar day [startAt, effectiveEnd)
\* touches.
C28_LoopRunsOncePerDay ==
    /\ [][ (called = "while" /\ called' = "while") => Lt(loopCursor, loopCursor') ]_vars
    /\ []( ( /\ called = "returned"
             /\ isValidZone(timezone)
             /\ EffectiveEnd > session.startAt )
              => loopCount = Cardinality(DaysTouched) )

(***************************************************************************)
(* The segments against the bounds of their days.                          *)
(***************************************************************************)
\* the instant segment i of the split begins: the segments follow one another
\* from startAt
SegmentStart(i) ==
    session.startAt + SumDurations(SubSeq(result, 1, i - 1)) \div MsPerMinute

SegmentEnd(i) == SegmentStart(i) + result[i].durationMs \div MsPerMinute

\* C29: every segment returned by splitSessionByDay has durationMs > 0 and at
\* most the real length of its local calendar day, and its interval lies
\* inside [dayStart, dayEnd) of getDayBounds for its date.
C29_SegmentsLieInsideTheirDays ==
    (SplitReturned /\ isValidZone(timezone)) =>
        \A i \in 1 .. Len(result) :
            LET bounds == getDayBounds(result[i].date, timezone, now)
            IN /\ result[i].durationMs > 0
               /\ result[i].durationMs
                     <= DayLength(DayNumber(result[i].date), timezone) * MsPerMinute
               /\ bounds.dayStart <= SegmentStart(i)
               /\ SegmentEnd(i) <= bounds.dayEnd

(***************************************************************************)
(* The client's progress against the server's.                             *)
(***************************************************************************)
\* C30: for every workedMs >= 0 and every goalHours, the client's
\* computeProgressPercent and the percent of the ProgressBar component both
\* equal the server's computeProgressPercent(workedMs, goalHours), which is
\* 100 for goalHours <= 0.
C30_ClientAgreesWithServer ==
    called = "ProgressBar" =>
       /\ result.client = result.server
       /\ result.percent = result.server
       /\ goalHours.num <= 0 => result.percent = Frac(100, 1)

\* work without a goal, and work short of a goal
C30_Witness ==
    /\ called = "ProgressBar"
    /\ workedMs > 0
    /\ \/ goalHours.num <= 0 /\ result.percent = Frac(100, 1)
       \/ goalHours.num > 0 /\ result.percent # Frac(100, 1) /\ result.percent = result.server

====
